---- MODULE Spec2Model ----
(***************************************************************************)
(* ReviewCraft: the asynchronous pull-request analysis pipeline.           *)
(*                                                                         *)
(* The model follows app/api/pr_analysis.py (submission),                  *)
(* app/worker/analyze_pr_task.py (the Celery task and its async workflow), *)
(* app/worker/celery_app.py (late acknowledgement, redelivery),            *)
(* app/models/task.py and app/models/pr_analysis.py (the rows), and        *)
(* app/services/code_analyzer.py / ai_agent.py / llm_client.py (per-file    *)
(* analysis, the summary).  Timestamps are modelled by whether they are set.*)
(***************************************************************************)
EXTENDS Integers, Sequences, FiniteSets, TLC

\* ------------------------------------------------------------------ bounds
MaxTasks == 1
NumWorkers == 2
MaxPublish == 1
MaxRedeliver == 1
MaxFiles == 2
MaxDbFaults == 1
MaxSummaryFaults == 1
MaxRetryCalls == 5
MaxProgressFiles == 50
MaxSummaryFiles == 21
MaxScoreIssues == 3
MaxMappedIssues == 2
\* changed files of a pull request whose file list is fetched page by page
MaxPrFiles == 5100
\* words of a line and lines of a text given to the embeddings service
MaxLineWords == 2
MaxLines == 2

TaskIds == 1..MaxTasks
Workers == 1..NumWorkers

\* ------------------------------------------------------- program constants
\* max_retries of the Celery task decorator and of the Task column
CeleryMaxRetries == 3
TaskMaxRetries == 3
\* quality score used when the summary carries no overall_score
DefaultScore == 75

\* dimension of the vectors of the embeddings service
EmbeddingDim == 384

\* get_pr_files: size of a page and the largest page number requested
PerPage == 100
MaxPages == 50

\* a nullable number that is not set
Null == -1

\* ---------------------------------------------------------------- enums
TaskStatus == {"pending", "processing", "completed", "failed", "cancelled", "retry"}
AnalysisStatus == {"pending", "in_progress", "completed", "failed"}
IssueType == {"style", "bug", "performance", "security", "best_practice",
              "complexity", "maintainability", "documentation"}
IssueSeverity == {"info", "low", "medium", "high", "critical"}

\* Task.is_completed: the terminal statuses
Terminal == {"completed", "failed", "cancelled"}

\* the name the submission sends to, and the name the worker task registers
SentTaskName == "app.worker.celery_worker.pr_analysis_task"
RegisteredTaskName == "analyze_pr_task"

\* ------------------------------------------------------- the language model
\* The condition of the language-model client during a call: whether a client
\* exists (an API key is configured) and what the endpoint call does: it
\* raises, or answers with no content, with text that is not JSON, or with JSON.
LlmConditions ==
    { [client |-> FALSE, response |-> "none"] }
    \cup { [client |-> TRUE, response |-> r] : r \in {"raises", "empty", "text", "json"} }

\* the conditions under which the language model is not available
LlmUnavailable ==
    { c \in LlmConditions : ~c.client \/ c.response = "raises" }

\* an exception leaving a call
Raised == [raised |-> TRUE]

\* _mock_quality_analysis, _mock_security_analysis, _mock_suggestions
mock_quality_analysis ==
    [score |-> 8,
     issues |-> << [type |-> "warning", title |-> "Mock Analysis"] >>,
     suggestions |-> << [type |-> "info", title |-> "Configure AI Service"] >>]

mock_security_analysis ==
    << [type |-> "info", severity |-> "low", title |-> "Mock Security Analysis"] >>

mock_suggestions ==
    << [type |-> "info", priority |-> "medium", title |-> "Configure AI Service"] >>

\* analyze_code_quality as it would be if only the JSON decoding error were
\* caught: an exception of the endpoint call leaves the method
analyze_code_quality_uncaught(c) ==
    IF ~c.client THEN mock_quality_analysis
    ELSE CASE c.response = "raises" -> Raised
           [] c.response = "json"   -> [score |-> 9, issues |-> << >>, suggestions |-> << >>]
           [] c.response = "text"   -> [score |-> 7, issues |-> << >>,
                                        suggestions |-> << "content" >>]
           [] OTHER                 -> mock_quality_analysis

\* LLMClient.analyze_code_quality
analyze_code_quality(c) ==
    IF ~c.client THEN mock_quality_analysis
    ELSE CASE c.response = "json"   -> [score |-> 9, issues |-> << >>, suggestions |-> << >>]
           [] c.response = "text"   -> [score |-> 7, issues |-> << >>,
                                        suggestions |-> << "content" >>]
           [] OTHER                 -> mock_quality_analysis

\* analyze_security as it would be if the JSON decoding error were handled by
\* the general handler: text that is not JSON gives the mock analysis
analyze_security_undecoded(c) ==
    IF ~c.client THEN mock_security_analysis
    ELSE CASE c.response = "json"   -> << >>
           [] OTHER                 -> mock_security_analysis

\* LLMClient.analyze_security
analyze_security(c) ==
    IF ~c.client THEN mock_security_analysis
    ELSE CASE c.response = "json"   -> << >>
           [] c.response = "text"   -> << [type |-> "info", severity |-> "medium",
                                           title |-> "Security Analysis"] >>
           [] OTHER                 -> mock_security_analysis

\* LLMClient.generate_suggestions
generate_suggestions(c) ==
    IF ~c.client THEN mock_suggestions
    ELSE CASE c.response = "json"   -> << >>
           [] c.response = "text"   -> << [type |-> "improvement", priority |-> "medium",
                                           title |-> "Code Improvement"] >>
           [] OTHER                 -> mock_suggestions

\* _perform_comprehensive_analysis: the issues of the quality results, if it
\* has any, followed by the security issues
AllIssuesOf(quality_results, security_issues) ==
    (IF "issues" \in DOMAIN quality_results THEN quality_results.issues ELSE << >>)
    \o security_issues

\* ------------------------------------------------------------ the code host
\* The changed files of a pull request, by what their analysis does: it raises,
\* the analysis services return one issue record (type and severity strings
\* as the language model gives them), or ("degraded") the endpoint of the
\* language model raises on every call made for the file.
FileKinds == {"raises", "critical", "warning", "degraded"}

\* the raw issue list _perform_comprehensive_analysis collects for a file
RawIssuesOf(kind) ==
    CASE kind = "critical" -> << [type |-> "security", severity |-> "critical"] >>
      [] kind = "warning"  -> << [type |-> "quality", severity |-> "warning"] >>
      [] kind = "degraded" ->
            AllIssuesOf(analyze_code_quality([client |-> TRUE, response |-> "raises"]),
                        analyze_security([client |-> TRUE, response |-> "raises"]))
      [] OTHER             -> << >>

\* the file lists a pull request can have
FileLists == UNION { [1..n -> FileKinds] : n \in 0..MaxFiles }

\* a pull request as the code host serves it: not reachable (missing,
\* unauthorized) or reachable with its list of changed files
PullRequests ==
    { [reachable |-> FALSE, files |-> << >>] }
    \cup { [reachable |-> TRUE, files |-> fl] : fl \in FileLists }

\* pull requests with many changed files, every one analyzed without error
ManyFilePullRequests ==
    { [reachable |-> TRUE, files |-> [k \in 1..n |-> "warning"]] : n \in 0..MaxProgressFiles }

VARIABLES
    tasks,          \* table tasks: task id -> row
    api,            \* position of the submission handler for each task id
    pr,             \* the pull request each task names, as the code host serves it
    pr_analyses,    \* table pr_analyses: sequence of rows, id = index
    file_analyses,  \* table file_analyses: set of rows
    issues,         \* table issues: set of rows
    queue,          \* messages in the broker waiting for a worker
    meta,           \* result backend: state and info of the Celery task, per task id
    lastp,          \* the last progress value a worker wrote for the task id
    wk,             \* the worker processes: position and locals of the running task
    obj,            \* a Task object on which the model's methods are called
    call,           \* a call of a function of the services: its arguments and its result
    npublish, nredeliver, ndbfault, nsummaryfault

vars == <<tasks, api, pr, pr_analyses, file_analyses, issues, queue, meta, lastp, wk,
          obj, call, npublish, nredeliver, ndbfault, nsummaryfault>>

db == <<tasks, pr_analyses, file_analyses, issues>>
counters == <<npublish, nredeliver, ndbfault, nsummaryfault>>

\* ------------------------------------------------------------------ rows
NewTask ==
    [status |-> "pending", progress |-> 0, started_at |-> FALSE,
     completed_at |-> FALSE, error_message |-> "null", celery_task_id |-> FALSE,
     retry_count |-> 0, max_retries |-> TaskMaxRetries]

NewPRAnalysis(t, nfiles) ==
    [task_id |-> t, status |-> "in_progress",
     analysis_started_at |-> TRUE, analysis_completed_at |-> FALSE,
     total_files_analyzed |-> nfiles, total_lines_analyzed |-> 0,
     total_issues_found |-> 0,
     critical_issues |-> 0, high_issues |-> 0, medium_issues |-> 0,
     low_issues |-> 0, info_issues |-> 0,
     quality_score |-> Null, maintainability_score |-> Null,
     complexity_score |-> Null, summary |-> "null", recommendations |-> << >>]

IdleWorker ==
    [pc |-> "idle", task_id |-> 0, retries |-> 0, n |-> 0, i |-> 0,
     fas |-> <<>>, total_issues |-> 0, pr_id |-> 0,
     summary |-> [overall_quality |-> "null"], error |-> "null",
     \* the connection pool of the run's GitHubClient: none, open or closed
     client |-> "none",
     \* whether the Task was already completed when this run began
     rerun |-> FALSE]

NoMeta == [state |-> "PENDING", progress |-> Null]

\* nothing submitted, the workers idle
Idle ==
    /\ tasks = <<>>
    /\ api = [t \in TaskIds |-> "new"]
    /\ pr = <<>>
    /\ pr_analyses = <<>>
    /\ file_analyses = {}
    /\ issues = {}
    /\ queue = {}
    /\ meta = [t \in TaskIds |-> NoMeta]
    /\ lastp = [t \in TaskIds |-> Null]
    /\ wk = [w \in Workers |-> IdleWorker]
    /\ obj = NewTask
    /\ npublish = 0
    /\ nredeliver = 0
    /\ ndbfault = 0
    /\ nsummaryfault = 0

NoCall ==
    [file_analyses |-> <<>>, total_issues |-> 0, returned |-> FALSE,
     result |-> [overall_quality |-> "null"]]

Init ==
    /\ Idle
    /\ call = NoCall

\* ------------------------------------------------------------ pure helpers
RECURSIVE SumSeq(_)
SumSeq(s) ==
    IF s = <<>> THEN 0 ELSE Head(s) + SumSeq(Tail(s))

\* the count as it would be if the high issues were counted as the critical ones
CriticalCountOfHigh(iss) ==
    Cardinality({k \in 1..Len(iss) : iss[k].severity = "high"})

\* number of Issue objects of a list whose severity is critical
CriticalCount(iss) ==
    Cardinality({k \in 1..Len(iss) : iss[k].severity = "critical"})

\* analyze_file: map the incoming type string into the IssueType enum
MapIssueType(s) ==
    IF s \in IssueType THEN s
    ELSE CASE s = "unknown" -> "bug"
           [] s = "error"   -> "bug"
           [] s = "warning" -> "best_practice"
           [] s = "info"    -> "style"
           [] s = "quality" -> "maintainability"
           [] OTHER         -> "bug"

\* analyze_file: map the incoming severity string into the IssueSeverity enum
MapSeverity(s) ==
    IF s \in IssueSeverity THEN s
    ELSE CASE s = "error"   -> "high"
           [] s = "warning" -> "medium"
           [] s = "info"    -> "low"
           [] OTHER         -> "low"

\* dict.get(key, default)
Get(d, key, default) ==
    IF key \in DOMAIN d THEN d[key] ELSE default

\* analyze_file as it would be if issues_count counted only the critical and
\* high issues while an Issue object is still built for every raw issue
AnalyzeFileCountingSevere(f, raw) ==
    [file_path |-> f,
     analysis_status |-> "completed",
     issues_count |->
         Cardinality({k \in 1..Len(raw) : Get(raw[k], "severity", "None")
                                             \in {"critical", "high"}}),
     critical_issues_count |->
         Cardinality({k \in 1..Len(raw) : Get(raw[k], "severity", "None")
                                             \in {"critical", "high"}}),
     issues |-> [k \in 1..Len(raw) |->
                    [issue_type |-> MapIssueType(Get(raw[k], "type", "bug")),
                     severity |-> MapSeverity(Get(raw[k], "severity", "low"))]]]

\* analyze_file: the FileAnalysis object (with its Issue objects) built for
\* file number f from the raw issue list the analysis returned
AnalyzeFile(f, raw) ==
    [file_path |-> f,
     analysis_status |-> "completed",
     issues_count |-> Len(raw),
     critical_issues_count |->
         Cardinality({k \in 1..Len(raw) : Get(raw[k], "severity", "None")
                                             \in {"critical", "high"}}),
     issues |-> [k \in 1..Len(raw) |->
                    [issue_type |-> MapIssueType(Get(raw[k], "type", "bug")),
                     severity |-> MapSeverity(Get(raw[k], "severity", "low"))]]]

\* all Issue objects of a list of FileAnalysis objects
RECURSIVE AllIssues(_)
AllIssues(fas) ==
    IF fas = <<>> THEN <<>> ELSE Head(fas).issues \o AllIssues(Tail(fas))

\* generate_summary: the quality scores of the analyses that have the attribute
RECURSIVE QualityScores(_)
QualityScores(fas) ==
    IF fas = <<>> THEN <<>>
    ELSE (IF "quality_score" \in DOMAIN Head(fas)
             THEN <<Head(fas).quality_score>> ELSE <<>>)
         \o QualityScores(Tail(fas))

\* f"Address {critical_issues_count} critical security issues immediately"
CriticalTemplate(n) ==
    "Address " \o ToString(n) \o " critical security issues immediately"

\* the recommendations as they would be if a PR of 20 files already counted as
\* large
RecommendationsFrom20(crit, sum, len, nfiles) ==
    LET r1 == IF crit > 0 THEN <<CriticalTemplate(crit)>> ELSE <<>>
        r2 == IF sum < 70 * len
              THEN <<"Consider refactoring to improve code quality">> ELSE <<>>
        r3 == IF nfiles >= 20
              THEN <<"Large PR - consider breaking into smaller changes">> ELSE <<>>
        recs == r1 \o r2 \o r3
    IN  IF recs = <<>>
        THEN <<"Code looks good! Consider adding tests if not present">>
        ELSE recs

\* generate_summary, the recommendations: the templates whose condition holds
\* (the average sum/len is compared through sum and len), or the fallback
Recommendations(crit, sum, len, nfiles) ==
    LET r1 == IF crit > 0 THEN <<CriticalTemplate(crit)>> ELSE <<>>
        r2 == IF sum < 70 * len
              THEN <<"Consider refactoring to improve code quality">> ELSE <<>>
        r3 == IF nfiles > 20
              THEN <<"Large PR - consider breaking into smaller changes">> ELSE <<>>
        recs == r1 \o r2 \o r3
    IN  IF recs = <<>>
        THEN <<"Code looks good! Consider adding tests if not present">>
        ELSE recs

\* the assessment as it would be if good began above 75, not at 75
OverallQualityAbove(crit, sum, len) ==
    IF crit > 0 THEN "needs_work"
    ELSE IF sum > 85 * len THEN "excellent"
    ELSE IF sum > 75 * len THEN "good"
    ELSE "fair"

\* generate_summary, the overall assessment
OverallQuality(crit, sum, len) ==
    IF crit > 0 THEN "needs_work"
    ELSE IF sum >= 85 * len THEN "excellent"
    ELSE IF sum >= 75 * len THEN "good"
    ELSE "fair"

\* generate_summary
GenerateSummary(fas, total_issues) ==
    LET qs == QualityScores(fas)
        \* avg_quality = sum/len, or 75; compared through sum and len
        sum == IF qs = <<>> THEN DefaultScore ELSE SumSeq(qs)
        len == IF qs = <<>> THEN 1 ELSE Len(qs)
        crit == CriticalCount(AllIssues(fas))
    IN  [overall_quality |-> OverallQuality(crit, sum, len),
         overall_score |-> sum \div len,
         total_files_analyzed |-> Len(fas),
         total_issues |-> total_issues,
         critical_issues |-> crit,
         recommendations |-> Recommendations(crit, sum, len, Len(fas))]

\* the summary the worker substitutes when generate_summary raises
SyntheticSummary ==
    [overall_quality |-> "unknown",
     recommendations |-> <<"Analysis summary generation failed">>,
     critical_issues |-> 0]

\* summary.get("overall_score", 75)
OverallScore(summary) ==
    IF "overall_score" \in DOMAIN summary THEN summary.overall_score
    ELSE DefaultScore

\* ---- Python float arithmetic (IEEE 754 binary64, round to nearest, ties to
\* even).  A positive float is [bits, exp]: the sequence of binary digits of
\* its significand, most significant first, and the power of two that scales
\* it.
SignificandBits == 53

RECURSIVE BitsToInt(_)
BitsToInt(b) ==
    IF b = <<>> THEN 0 ELSE 2 * BitsToInt(SubSeq(b, 1, Len(b) - 1)) + b[Len(b)]

\* b + 1
RECURSIVE Increment(_)
Increment(b) ==
    IF b = <<>> THEN <<1>>
    ELSE IF b[Len(b)] = 0 THEN [b EXCEPT ![Len(b)] = 1]
    ELSE Append(Increment(SubSeq(b, 1, Len(b) - 1)), 0)

\* the digits acc followed by the k next binary digits of r / n, for r < n,
\* and the remainder left
RECURSIVE DivBits(_, _, _, _)
DivBits(r, n, k, acc) ==
    IF k = 0 THEN [bits |-> acc, rem |-> r]
    ELSE IF 2 * r >= n THEN DivBits(2 * r - n, n, k - 1, Append(acc, 1))
    ELSE DivBits(2 * r, n, k - 1, Append(acc, 0))

\* the least e with i * 2^e >= n, for 0 < i < n
RECURSIVE Shift(_, _)
Shift(i, n) ==
    IF i >= n THEN 0 ELSE 1 + Shift(2 * i, n)

RECURSIVE Pow2(_)
Pow2(e) ==
    IF e = 0 THEN 1 ELSE 2 * Pow2(e - 1)

\* i / n for ints 0 < i < n: the correctly rounded quotient
TrueDivide(i, n) ==
    LET e == Shift(i, n)
        d == DivBits(i * Pow2(e) - n, n, SignificandBits - 1, <<1>>)
        m == d.bits
        up == 2 * d.rem > n \/ (2 * d.rem = n /\ m[Len(m)] = 1)
    IN [bits |-> IF up THEN Increment(m) ELSE m,
        exp |-> 0 - (e + SignificandBits - 1)]

\* the digits of 25 * b, worked from the last digit b[k] to the first, with
\* the digits found so far in acc
RECURSIVE Times25(_, _, _, _)
Times25(b, k, carry, acc) ==
    IF k = 0
    THEN IF carry = 0 THEN acc ELSE Times25(b, 0, carry \div 2, <<carry % 2>> \o acc)
    ELSE Times25(b, k - 1, (b[k] * 25 + carry) \div 2, <<(b[k] * 25 + carry) % 2>> \o acc)

\* a product rounded to the significand's width
RoundToSignificand(x) ==
    IF Len(x.bits) <= SignificandBits THEN x
    ELSE LET d == Len(x.bits) - SignificandBits
             kept == SubSeq(x.bits, 1, SignificandBits)
             dropped == SubSeq(x.bits, SignificandBits + 1, Len(x.bits))
             half == <<1>> \o [k \in 1..(d - 1) |-> 0]
             above == dropped[1] = 1 /\ dropped # half
             up == above \/ (dropped = half /\ kept[SignificandBits] = 1)
         IN [bits |-> IF up THEN Increment(kept) ELSE kept, exp |-> x.exp + d]

\* x * 50
Times50(x) ==
    RoundToSignificand([bits |-> Times25(x.bits, Len(x.bits), 0, <<>>), exp |-> x.exp + 1])

\* int(x) for 0 < x < 2^31
IntOf(x) ==
    IF Len(x.bits) + x.exp <= 0 THEN 0
    ELSE BitsToInt(SubSeq(x.bits, 1, Len(x.bits) + x.exp))

\* int((i / n) * 50)
FileShare(i, n) ==
    IF i = 0 THEN 0 ELSE IntOf(Times50(TrueDivide(i, n)))

\* the values of int((i / n) * 50) for the files of a pull request
FileShares ==
    [n \in 1..MaxProgressFiles |-> [i \in 0..(n - 1) |-> FileShare(i, n)]]

\* progress reported on entry to file i (0-based) of n
FileProgress(i, n) ==
    30 + FileShares[n][i]

\* ------------------------------------------------------- the file's scores
\* the digits of 15 * b, worked from the last digit b[k] to the first, with
\* the digits found so far in acc
RECURSIVE Times15(_, _, _, _)
Times15(b, k, carry, acc) ==
    IF k = 0
    THEN IF carry = 0 THEN acc ELSE Times15(b, 0, carry \div 2, <<carry % 2>> \o acc)
    ELSE Times15(b, k - 1, (b[k] * 15 + carry) \div 2, <<(b[k] * 15 + carry) % 2>> \o acc)

\* x * 30
Times30(x) ==
    RoundToSignificand([bits |-> Times15(x.bits, Len(x.bits), 0, <<>>), exp |-> x.exp + 1])

\* a duplication_score is written in hundredths: h stands for the float h / 100
Hundredths == 0..100

\* int(duplication * 30)
DuplicationPenalty(h) ==
    IF h = 0 THEN 0
    ELSE IF h = 100 THEN 30
    ELSE IntOf(Times30(TrueDivide(h, 100)))

DuplicationPenalties ==
    [h \in Hundredths |-> DuplicationPenalty(h)]

\* len([i for i in issues if i.get("severity") in severities])
CountSeverity(iss, severities) ==
    Cardinality({k \in 1..Len(iss) : Get(iss[k], "severity", "None") \in severities})

\* min(a, b), max(a, b)
Min(a, b) == IF a < b THEN a ELSE b
Max(a, b) == IF a > b THEN a ELSE b

\* the quality score as it would be if only the high issues, not the critical
\* ones, carried the penalty of 20
calculate_quality_score_high_only(quality_results, all_issues, maintainability_score) ==
    LET critical_issues == CountSeverity(all_issues, {"high"})
        high_issues == CountSeverity(all_issues, {"high"})
        medium_issues == CountSeverity(all_issues, {"medium"})
        complexity == Get(quality_results, "complexity_score", 5)
        duplication == Get(quality_results, "duplication_score", 0)
        score == maintainability_score - critical_issues * 20 - high_issues * 10
                 - medium_issues * 5
                 - (IF complexity > 15 THEN (complexity - 15) * 2 ELSE 0)
                 - DuplicationPenalties[duplication]
    IN Max(Min(score, 100), 0)

\* _calculate_quality_score
calculate_quality_score(quality_results, all_issues, maintainability_score) ==
    LET critical_issues == CountSeverity(all_issues, {"critical", "high"})
        high_issues == CountSeverity(all_issues, {"high"})
        medium_issues == CountSeverity(all_issues, {"medium"})
        complexity == Get(quality_results, "complexity_score", 5)
        duplication == Get(quality_results, "duplication_score", 0)
        score == maintainability_score - critical_issues * 20 - high_issues * 10
                 - medium_issues * 5
                 - (IF complexity > 15 THEN (complexity - 15) * 2 ELSE 0)
                 - DuplicationPenalties[duplication]
    IN Max(Min(score, 100), 0)

\* the security score as it would be without the lower clamp
calculate_security_score_unclamped(security_issues) ==
    IF security_issues = <<>> THEN 100
    ELSE LET critical_security == CountSeverity(security_issues, {"critical", "high"})
             high_security == CountSeverity(security_issues, {"high"})
             medium_security == CountSeverity(security_issues, {"medium"})
         IN 100 - critical_security * 40 - high_security * 25 - medium_security * 10

\* _calculate_security_score
calculate_security_score(security_issues) ==
    IF security_issues = <<>> THEN 100
    ELSE LET critical_security == CountSeverity(security_issues, {"critical", "high"})
             high_security == CountSeverity(security_issues, {"high"})
             medium_security == CountSeverity(security_issues, {"medium"})
         IN Max(100 - critical_security * 40 - high_security * 25 - medium_security * 10, 0)

\* ------------------------------------------------------------ shared writes
\* celery_task.update_state(state, meta={"progress": p, ...})
UpdateState(t, state, p) ==
    /\ meta' = [meta EXCEPT ![t] = [state |-> state, progress |-> p]]
    /\ lastp' = [lastp EXCEPT ![t] = p]

\* _update_task_failed: UPDATE tasks SET status, error_message, completed_at
UpdateTaskFailed(t, msg) ==
    tasks' = [tasks EXCEPT ![t] = [@ EXCEPT !.status = "failed",
                                            !.error_message = msg,
                                            !.completed_at = TRUE]]

SetWk(w, rec) ==
    wk' = [wk EXCEPT ![w] = rec]

Message(name, t, retries) ==
    [name |-> name, task_id |-> t, retries |-> retries]

\* ------------------------------------------------------------- submission
\* A repository URL is a sequence of lexical pieces: a scheme-and-host prefix,
\* "name" for a run of the characters [\w\-\.], ".git" (which is itself such a
\* run), "/" and " " (white space).
UrlPrefixes == {"https://github.com/", "http://github.com/", "https://gitlab.com/",
                "git@github.com:"}

\* str.strip()
RECURSIVE Strip(_)
Strip(u) ==
    IF u = <<>> THEN u
    ELSE IF Head(u) = " " THEN Strip(Tail(u))
    ELSE IF u[Len(u)] = " " THEN Strip(SubSeq(u, 1, Len(u) - 1))
    ELSE u

\* [\w\-\.]+
IsNameRun(s) ==
    /\ s # <<>>
    /\ \A k \in 1..Len(s) : s[k] \in {"name", ".git"}

\* the (owner, repo) groups of ^https://github\.com/([\w\-\.]+)/([\w\-\.]+)/?$
HttpsGroups(s) ==
    IF s # <<>> /\ Head(s) = "https://github.com/"
    THEN LET rest == Tail(s)
             body == IF rest # <<>> /\ rest[Len(rest)] = "/"
                     THEN SubSeq(rest, 1, Len(rest) - 1) ELSE rest
         IN {<<SubSeq(body, 1, i - 1), SubSeq(body, i + 1, Len(body))>> :
                i \in {k \in 1..Len(body) :
                         /\ body[k] = "/"
                         /\ IsNameRun(SubSeq(body, 1, k - 1))
                         /\ IsNameRun(SubSeq(body, k + 1, Len(body)))}}
    ELSE {}

\* the (owner, repo) groups of ^git@github\.com:([\w\-\.]+)/([\w\-\.]+)\.git$
SshGroups(s) ==
    IF s # <<>> /\ Head(s) = "git@github.com:" /\ s[Len(s)] = ".git"
    THEN LET body == SubSeq(s, 2, Len(s) - 1)
         IN {<<SubSeq(body, 1, i - 1), SubSeq(body, i + 1, Len(body))>> :
                i \in {k \in 1..Len(body) :
                         /\ body[k] = "/"
                         /\ IsNameRun(SubSeq(body, 1, k - 1))
                         /\ IsNameRun(SubSeq(body, k + 1, Len(body)))}}
    ELSE {}

\* _is_valid_github_url: either pattern matches the stripped URL
is_valid_github_url(url) ==
    \/ HttpsGroups(Strip(url)) # {}
    \/ SshGroups(Strip(url)) # {}

\* _extract_repo_info: the groups of the first pattern that matches, else ValueError
extract_repo_info(url) ==
    LET s == Strip(url)
        Groups(g) == [repo_owner |-> g[1], repo_name |-> g[2]]
    IN IF HttpsGroups(s) # {} THEN Groups(CHOOSE g \in HttpsGroups(s) : TRUE)
       ELSE IF SshGroups(s) # {} THEN Groups(CHOOSE g \in SshGroups(s) : TRUE)
       ELSE Raised

\* the requests a client sends
RepoUrls ==
    {<<"https://github.com/", "name", "/", "name">>,
     <<"https://github.com/", "name", "/", "name", "/">>,
     <<"https://github.com/", "name", "/", "name", ".git">>,
     <<" ", "https://github.com/", "name", "/", "name", " ">>,
     <<"git@github.com:", "name", "/", "name", ".git">>,
     <<"git@github.com:", "name", "/", "name">>,
     <<"git@github.com:", "name", "/", ".git">>,
     <<"http://github.com/", "name", "/", "name">>,
     <<"https://gitlab.com/", "name", "/", "name">>,
     <<"https://github.com/", "name">>,
     <<"https://github.com/", "name", "/", "name", "/", "name", "/", "name">>,
     <<"https://github.com/", "name", " ", "/", "name">>,
     <<>>}

PrNumbers == {-1, 0, 1, 2}

Requests == [repo_url : RepoUrls, pr_number : PrNumbers]

\* analyze_pr, the validation: a request that gets past every raise
AcceptsNonNegative(req) ==
    /\ is_valid_github_url(req.repo_url)
    /\ extract_repo_info(req.repo_url) # Raised
    /\ ~(req.pr_number < 0)

Accepts(req) ==
    /\ is_valid_github_url(req.repo_url)
    /\ extract_repo_info(req.repo_url) # Raised
    /\ ~(req.pr_number <= 0)

\* analyze_pr: the validation raises ValidationError before anything is written
SubmitReject(t, req) ==
    /\ api[t] = "new"
    /\ ~Accepts(req)
    /\ api' = [api EXCEPT ![t] = "rejected"]
    /\ UNCHANGED <<call, obj, db, pr, queue, meta, lastp, wk, counters>>

\* analyze_pr: the Task row is created and committed
SubmitCreate(t, req) ==
    /\ api[t] = "new"
    /\ Accepts(req)
    /\ tasks' = tasks @@ (t :> NewTask)
    /\ api' = [api EXCEPT ![t] = "created"]
    /\ UNCHANGED <<call, obj, pr, pr_analyses, file_analyses, issues, queue, meta, lastp, wk, counters>>

\* analyze_pr: send_task succeeds and the message is with the broker
SubmitEnqueue(t) ==
    /\ api[t] = "created"
    /\ queue' = queue \cup {Message(SentTaskName, t, 0)}
    /\ api' = [api EXCEPT ![t] = "sent"]
    /\ UNCHANGED <<call, obj, db, pr, meta, lastp, wk, counters>>

\* analyze_pr: after send_task the queue ticket id is stored and committed.  The
\* status is assigned the value the object already holds, so the UPDATE sets
\* only celery_task_id.
SubmitStoreTicket(t) ==
    /\ api[t] = "sent"
    /\ tasks' = [tasks EXCEPT ![t] = [@ EXCEPT !.celery_task_id = TRUE]]
    /\ api' = [api EXCEPT ![t] = "done"]
    /\ UNCHANGED <<call, obj, pr, pr_analyses, file_analyses, issues, queue, meta, lastp, wk, counters>>

\* analyze_pr: send_task raises; the task is marked failed
SubmitEnqueueFail(t) ==
    /\ api[t] = "created"
    /\ tasks' = [tasks EXCEPT ![t] = [@ EXCEPT !.status = "failed",
                                              !.error_message = "Failed to submit task"]]
    /\ api' = [api EXCEPT ![t] = "done"]
    /\ UNCHANGED <<call, obj, pr, pr_analyses, file_analyses, issues, queue, meta, lastp, wk, counters>>

\* ------------------------------------------------------------------ broker
\* a producer sends a message for a submitted Task under the registered name
Publish(t) ==
    /\ t \in DOMAIN tasks
    /\ api[t] = "done"
    /\ npublish < MaxPublish
    /\ npublish' = npublish + 1
    /\ queue' = queue \cup {Message(RegisteredTaskName, t, 0)}
    /\ UNCHANGED <<call, obj, db, api, pr, meta, lastp, wk, nredeliver, ndbfault, nsummaryfault>>

\* a message whose name no worker task is registered under is dropped
DiscardUnregistered ==
    \E m \in queue :
    /\ m.name # RegisteredTaskName
    /\ queue' = queue \ {m}
    /\ UNCHANGED <<call, obj, db, api, pr, meta, lastp, wk, counters>>

\* the idle worker process that takes the next message (the processes are alike)
NextIdle(w) ==
    /\ wk[w].pc = "idle"
    /\ \A v \in Workers : v < w => wk[v].pc # "idle"

\* a worker takes a message and enters analyze_pr_task; the message is
\* acknowledged when the run ends
Claim(w) ==
    \E m \in queue :
    /\ NextIdle(w)
    /\ m.name = RegisteredTaskName
    /\ queue' = queue \ {m}
    /\ SetWk(w, [IdleWorker EXCEPT !.pc = "init", !.task_id = m.task_id,
                                   !.retries = m.retries,
                                   !.rerun = (tasks[m.task_id].status = "completed")])
    /\ UNCHANGED <<call, obj, db, api, pr, meta, lastp, counters>>

\* at-least-once delivery: the message is handed to a worker and, still
\* unacknowledged, stays in the broker to be delivered again
ClaimRedelivered(w) ==
    \E m \in queue :
    /\ NextIdle(w)
    /\ m.name = RegisteredTaskName
    /\ nredeliver < MaxRedeliver
    /\ nredeliver' = nredeliver + 1
    /\ SetWk(w, [IdleWorker EXCEPT !.pc = "init", !.task_id = m.task_id,
                                   !.retries = m.retries,
                                   !.rerun = (tasks[m.task_id].status = "completed")])
    /\ UNCHANGED <<call, obj, db, api, pr, queue, meta, lastp, npublish, ndbfault, nsummaryfault>>

\* ------------------------------------------------------------- the worker
\* analyze_pr_task: update_state(progress 0, "initializing")
Initializing(w) ==
    /\ wk[w].pc = "init"
    /\ UpdateState(wk[w].task_id, "PROGRESS", 0)
    /\ SetWk(w, [wk[w] EXCEPT !.pc = "fetching"])
    /\ UNCHANGED <<call, obj, db, api, pr, queue, counters>>

\* _analyze_pr_async as it would be if the client were closed only at the end
\* of the try block: an exception leaves the workflow with the pool open
LeaveWorkflowUnclosed(r, pc, error) ==
    [r EXCEPT !.pc = pc, !.error = error,
              !.client = IF pc = "except" THEN @ ELSE "closed"]

\* _analyze_pr_async leaves its try block, returning (pc "return") or with an
\* exception (pc "except"): the finally clause closes the client's pool
LeaveWorkflow(r, pc, error) ==
    [r EXCEPT !.pc = pc, !.error = error, !.client = "closed"]

\* _analyze_pr_async: update_state(progress 10, "fetching_pr_data"), then the
\* GitHubClient, the AIAgent and the CodeAnalyzer are created
FetchingPrData(w) ==
    /\ wk[w].pc = "fetching"
    /\ UpdateState(wk[w].task_id, "PROGRESS", 10)
    /\ SetWk(w, [wk[w] EXCEPT !.pc = "fetch", !.client = "open"])
    /\ UNCHANGED <<call, obj, db, api, pr, queue, counters>>

\* what the code host serves for the pull request of task t is p: it is fixed
\* by the first fetch
Serves(t, p) ==
    /\ t \in DOMAIN pr => pr[t] = p
    /\ pr' = IF t \in DOMAIN pr THEN pr ELSE pr @@ (t :> p)

\* get_pull_request and get_pr_files return the changed files
FetchOk(w, p) ==
    /\ wk[w].pc = "fetch"
    /\ p.reachable
    /\ Serves(wk[w].task_id, p)
    /\ SetWk(w, [wk[w] EXCEPT !.pc = "analyzing", !.n = Len(p.files)])
    /\ UNCHANGED <<call, obj, db, api, queue, meta, lastp, counters>>

\* the fetch as it would be if its exception were only logged: the workflow
\* goes on with an empty file list
FetchFailSwallowed(w, p) ==
    /\ wk[w].pc = "fetch"
    /\ ~p.reachable
    /\ Serves(wk[w].task_id, p)
    /\ SetWk(w, [wk[w] EXCEPT !.pc = "analyzing", !.n = 0])
    /\ UNCHANGED <<call, obj, db, api, queue, meta, lastp, counters>>

\* the fetch raises: the task is marked failed and GitHubAPIError is raised
FetchFail(w, p) ==
    /\ wk[w].pc = "fetch"
    /\ ~p.reachable
    /\ Serves(wk[w].task_id, p)
    /\ UpdateTaskFailed(wk[w].task_id, "Failed to fetch PR data")
    /\ SetWk(w, LeaveWorkflow(wk[w], "except", "Failed to fetch PR data"))
    /\ UNCHANGED <<call, obj, pr_analyses, file_analyses, issues, api, queue, meta, lastp,
                   counters>>

\* update_state(progress 30, "analyzing_files")
AnalyzingFiles(w) ==
    /\ wk[w].pc = "analyzing"
    /\ UpdateState(wk[w].task_id, "PROGRESS", 30)
    /\ SetWk(w, [wk[w] EXCEPT !.pc = "open"])
    /\ UNCHANGED <<call, obj, db, api, pr, queue, counters>>

\* step 3, one transaction: the Task becomes processing with started_at, and a
\* PRAnalysis row is inserted with total_files_analyzed = len(files_data)
OpenAnalysis(w) ==
    LET t == wk[w].task_id IN
    /\ wk[w].pc = "open"
    /\ tasks' = [tasks EXCEPT ![t] = [@ EXCEPT !.status = "processing",
                                              !.started_at = TRUE]]
    /\ pr_analyses' = Append(pr_analyses, NewPRAnalysis(t, wk[w].n))
    /\ SetWk(w, [wk[w] EXCEPT !.pc = "file", !.i = 0,
                              !.pr_id = Len(pr_analyses) + 1])
    /\ UNCHANGED <<call, obj, file_analyses, issues, api, pr, queue, meta, lastp, counters>>

\* the transaction of step 3 raises and is rolled back
OpenAnalysisFail(w) ==
    /\ wk[w].pc = "open"
    /\ ndbfault < MaxDbFaults
    /\ ndbfault' = ndbfault + 1
    /\ SetWk(w, LeaveWorkflow(wk[w], "except", "database error"))
    /\ UNCHANGED <<call, obj, db, api, pr, queue, meta, lastp, npublish, nredeliver, nsummaryfault>>

\* step 4, file i: the progress is reported and analyze_file returns
AnalyzeFileOk(w) ==
    LET kind == pr[wk[w].task_id].files[wk[w].i + 1]
        fa == AnalyzeFile(wk[w].i + 1, RawIssuesOf(kind)) IN
    /\ wk[w].pc = "file"
    /\ wk[w].i < wk[w].n
    /\ kind # "raises"
    /\ UpdateState(wk[w].task_id, "PROGRESS", FileProgress(wk[w].i, wk[w].n))
    /\ SetWk(w, [wk[w] EXCEPT !.i = @ + 1,
                              !.fas = Append(@, fa),
                              !.total_issues = @ + Len(fa.issues)])
    /\ UNCHANGED <<call, obj, db, api, pr, queue, counters>>

\* step 4 as it would be without the try/except around analyze_file: the
\* exception of one file leaves the workflow
AnalyzeFileRaiseAborts(w) ==
    /\ wk[w].pc = "file"
    /\ wk[w].i < wk[w].n
    /\ pr[wk[w].task_id].files[wk[w].i + 1] = "raises"
    /\ UpdateState(wk[w].task_id, "PROGRESS", FileProgress(wk[w].i, wk[w].n))
    /\ SetWk(w, LeaveWorkflow(wk[w], "except", "analysis error"))
    /\ UNCHANGED <<call, obj, db, api, pr, queue, counters>>

\* step 4, file i: analyze_file raises; the file is logged and skipped
AnalyzeFileRaise(w) ==
    /\ wk[w].pc = "file"
    /\ wk[w].i < wk[w].n
    /\ pr[wk[w].task_id].files[wk[w].i + 1] = "raises"
    /\ UpdateState(wk[w].task_id, "PROGRESS", FileProgress(wk[w].i, wk[w].n))
    /\ SetWk(w, [wk[w] EXCEPT !.i = @ + 1])
    /\ UNCHANGED <<call, obj, db, api, pr, queue, counters>>

\* step 5: update_state(progress 85) and generate_summary returns
SummaryOk(w) ==
    /\ wk[w].pc = "file"
    /\ wk[w].i = wk[w].n
    /\ UpdateState(wk[w].task_id, "PROGRESS", 85)
    /\ SetWk(w, [wk[w] EXCEPT !.pc = "saving",
                              !.summary = GenerateSummary(wk[w].fas, wk[w].total_issues)])
    /\ UNCHANGED <<call, obj, db, api, pr, queue, counters>>

\* step 5 as it would be without the try/except around generate_summary: the
\* exception leaves the workflow
SummaryFailAborts(w) ==
    /\ wk[w].pc = "file"
    /\ wk[w].i = wk[w].n
    /\ nsummaryfault < MaxSummaryFaults
    /\ nsummaryfault' = nsummaryfault + 1
    /\ UpdateState(wk[w].task_id, "PROGRESS", 85)
    /\ SetWk(w, LeaveWorkflow(wk[w], "except", "summary error"))
    /\ UNCHANGED <<call, obj, db, api, pr, queue, npublish, nredeliver, ndbfault>>

\* step 5: generate_summary raises; the synthetic summary is used
SummaryFail(w) ==
    /\ wk[w].pc = "file"
    /\ wk[w].i = wk[w].n
    /\ nsummaryfault < MaxSummaryFaults
    /\ nsummaryfault' = nsummaryfault + 1
    /\ UpdateState(wk[w].task_id, "PROGRESS", 85)
    /\ SetWk(w, [wk[w] EXCEPT !.pc = "saving", !.summary = SyntheticSummary])
    /\ UNCHANGED <<call, obj, db, api, pr, queue, npublish, nredeliver, ndbfault>>

\* step 6: update_state(progress 95, "saving_results")
SavingResults(w) ==
    /\ wk[w].pc = "saving"
    /\ UpdateState(wk[w].task_id, "PROGRESS", 95)
    /\ SetWk(w, [wk[w] EXCEPT !.pc = "save"])
    /\ UNCHANGED <<call, obj, db, api, pr, queue, counters>>

\* the FileAnalysis rows a run adds for its PRAnalysis p
FileRows(p, fas) ==
    { [id |-> <<p, k>>, pr_analysis_id |-> p, file_path |-> fas[k].file_path,
       analysis_status |-> fas[k].analysis_status,
       issues_count |-> fas[k].issues_count,
       critical_issues_count |-> fas[k].critical_issues_count]
      : k \in 1..Len(fas) }

\* the Issue rows that cascade from the FileAnalysis objects
IssueRows(p, fas) ==
    UNION { { [id |-> <<p, k, j>>, pr_analysis_id |-> p, file_analysis_id |-> <<p, k>>,
               issue_type |-> fas[k].issues[j].issue_type,
               severity |-> fas[k].issues[j].severity,
               file_path |-> Null]
              : j \in 1..Len(fas[k].issues) }
            : k \in 1..Len(fas) }

\* the values step 6 writes into the PRAnalysis row
ClosePRAnalysis(row, fas, total_issues, summary) ==
    [row EXCEPT !.status = "completed",
                !.analysis_completed_at = TRUE,
                !.total_issues_found = total_issues,
                !.critical_issues = CriticalCount(AllIssues(fas)),
                !.summary = summary.overall_quality,
                !.quality_score = OverallScore(summary),
                !.recommendations = summary.recommendations]

\* step 6, one transaction: the PRAnalysis is closed, the FileAnalysis and
\* Issue rows are added and the Task is marked completed with completed_at
SaveResults(w) ==
    LET t == wk[w].task_id
        p == wk[w].pr_id IN
    /\ wk[w].pc = "save"
    /\ pr_analyses' = [pr_analyses EXCEPT ![p] =
            ClosePRAnalysis(@, wk[w].fas, wk[w].total_issues, wk[w].summary)]
    /\ file_analyses' = file_analyses \cup FileRows(p, wk[w].fas)
    /\ issues' = issues \cup IssueRows(p, wk[w].fas)
    /\ tasks' = [tasks EXCEPT ![t] = [@ EXCEPT !.status = "completed",
                                              !.completed_at = TRUE]]
    /\ SetWk(w, [wk[w] EXCEPT !.pc = "success"])
    /\ UNCHANGED <<call, obj, api, pr, queue, meta, lastp, counters>>

\* the transaction of step 6 raises and is rolled back
SaveResultsFail(w) ==
    /\ wk[w].pc = "save"
    /\ ndbfault < MaxDbFaults
    /\ ndbfault' = ndbfault + 1
    /\ SetWk(w, LeaveWorkflow(wk[w], "except", "database error"))
    /\ UNCHANGED <<call, obj, db, api, pr, queue, meta, lastp, npublish, nredeliver, nsummaryfault>>

\* update_state(state SUCCESS, progress 100, "completed"); the workflow
\* returns the result dict
FinalProgress(w) ==
    /\ wk[w].pc = "success"
    /\ UpdateState(wk[w].task_id, "SUCCESS", 100)
    /\ SetWk(w, LeaveWorkflow(wk[w], "return", wk[w].error))
    /\ UNCHANGED <<call, obj, db, api, pr, queue, counters>>

\* analyze_pr_task returns the result dict, which the backend stores in place
\* of the progress meta; the message is acknowledged
ReturnResult(w) ==
    /\ wk[w].pc = "return"
    /\ meta' = [meta EXCEPT ![wk[w].task_id] = [state |-> "SUCCESS", progress |-> Null]]
    /\ SetWk(w, IdleWorker)
    /\ UNCHANGED <<call, obj, db, api, pr, queue, lastp, counters>>

\* analyze_pr_task, except Exception: _update_task_failed(task_id, str(e))
HandleException(w) ==
    /\ wk[w].pc = "except"
    /\ UpdateTaskFailed(wk[w].task_id, wk[w].error)
    /\ SetWk(w, [wk[w] EXCEPT !.pc = "retry"])
    /\ UNCHANGED <<call, obj, pr_analyses, file_analyses, issues, api, pr, queue, meta, lastp,
                   counters>>

\* the retry as it would be if the number of retries already made, not the
\* number of the next one, were compared with max_retries
AutoRetryOneMore(w) ==
    LET t == wk[w].task_id IN
    /\ wk[w].pc = "retry"
    /\ IF wk[w].retries > CeleryMaxRetries
       THEN /\ queue' = queue
            /\ meta' = [meta EXCEPT ![t] = [state |-> "FAILURE", progress |-> Null]]
       ELSE /\ queue' = queue \cup {Message(RegisteredTaskName, t, wk[w].retries + 1)}
            /\ meta' = [meta EXCEPT ![t] = [state |-> "RETRY", progress |-> Null]]
    /\ SetWk(w, IdleWorker)
    /\ UNCHANGED <<call, obj, db, api, pr, lastp, counters>>

\* autoretry_for=(Exception,): TaskFailedError is raised; the task is sent
\* again with retries + 1 unless that exceeds max_retries
AutoRetry(w) ==
    LET t == wk[w].task_id IN
    /\ wk[w].pc = "retry"
    /\ IF wk[w].retries + 1 > CeleryMaxRetries
       THEN /\ queue' = queue
            /\ meta' = [meta EXCEPT ![t] = [state |-> "FAILURE", progress |-> Null]]
       ELSE /\ queue' = queue \cup {Message(RegisteredTaskName, t, wk[w].retries + 1)}
            /\ meta' = [meta EXCEPT ![t] = [state |-> "RETRY", progress |-> Null]]
    /\ SetWk(w, IdleWorker)
    /\ UNCHANGED <<call, obj, db, api, pr, lastp, counters>>

WorkerStep(w) ==
    \/ Initializing(w)
    \/ FetchingPrData(w)
    \/ \E p \in PullRequests : FetchOk(w, p)
    \/ \E p \in PullRequests : FetchFail(w, p)
    \/ AnalyzingFiles(w)
    \/ OpenAnalysis(w)
    \/ OpenAnalysisFail(w)
    \/ AnalyzeFileOk(w)
    \/ AnalyzeFileRaise(w)
    \/ SummaryOk(w)
    \/ SummaryFail(w)
    \/ SavingResults(w)
    \/ SaveResults(w)
    \/ SaveResultsFail(w)
    \/ FinalProgress(w)
    \/ ReturnResult(w)
    \/ HandleException(w)
    \/ AutoRetry(w)

Next ==
    \/ \E t \in TaskIds, req \in Requests : SubmitReject(t, req)
    \/ \E t \in TaskIds, req \in Requests : SubmitCreate(t, req)
    \/ \E t \in TaskIds : SubmitEnqueue(t)
    \/ \E t \in TaskIds : SubmitStoreTicket(t)
    \/ \E t \in TaskIds : SubmitEnqueueFail(t)
    \/ \E t \in TaskIds : Publish(t)
    \/ DiscardUnregistered
    \/ \E w \in Workers : Claim(w)
    \/ \E w \in Workers : ClaimRedelivered(w)
    \/ \E w \in Workers : WorkerStep(w)

Spec == Init /\ [][Next]_vars

\* ------------------------------------------- runs over large pull requests
\* The submission, the broker and the steps of a run in which nothing raises,
\* for pull requests of up to MaxProgressFiles files.
ManyFilesNext ==
    \/ \E t \in TaskIds, req \in Requests : SubmitCreate(t, req)
    \/ \E t \in TaskIds : SubmitEnqueue(t)
    \/ \E t \in TaskIds : SubmitStoreTicket(t)
    \/ \E t \in TaskIds : Publish(t)
    \/ DiscardUnregistered
    \/ \E w \in Workers : Claim(w)
    \/ \E w \in Workers : Initializing(w)
    \/ \E w \in Workers : FetchingPrData(w)
    \/ \E w \in Workers, p \in ManyFilePullRequests : FetchOk(w, p)
    \/ \E w \in Workers : AnalyzingFiles(w)
    \/ \E w \in Workers : OpenAnalysis(w)
    \/ \E w \in Workers : AnalyzeFileOk(w)
    \/ \E w \in Workers : SummaryOk(w)
    \/ \E w \in Workers : SavingResults(w)
    \/ \E w \in Workers : SaveResults(w)
    \/ \E w \in Workers : FinalProgress(w)
    \/ \E w \in Workers : ReturnResult(w)

ManyFilesSpec == Init /\ [][ManyFilesNext]_vars

\* ------------------------------------------------ cancellation by an operator
\* The status column of a task that is still under way is set to cancelled.
Cancel(t) ==
    /\ t \in DOMAIN tasks
    /\ tasks[t].status \notin {"completed", "cancelled"}
    /\ tasks' = [tasks EXCEPT ![t] = [@ EXCEPT !.status = "cancelled",
                                              !.completed_at = TRUE]]
    /\ UNCHANGED <<call, obj, api, pr, pr_analyses, file_analyses, issues, queue, meta,
                   lastp, wk, counters>>

NextCancel ==
    \/ Next
    \/ \E t \in TaskIds : Cancel(t)

SpecCancel == Init /\ [][NextCancel]_vars

\* ------------------------------------------------ the methods of a Task object
pipeline == <<tasks, api, pr, pr_analyses, file_analyses, issues, queue, meta,
              lastp, wk, call, counters>>

\* the progress arguments tried
ProgressInputs == {-5, 0, 40, 100, 150}

\* Task.update_progress
update_progress(task, progress) ==
    [task EXCEPT !.progress = Max(0, Min(100, progress))]

\* Task.mark_started
mark_started(task) ==
    [task EXCEPT !.status = "processing", !.started_at = TRUE, !.progress = 0]

\* Task.mark_completed
mark_completed(task) ==
    [task EXCEPT !.status = "completed", !.completed_at = TRUE, !.progress = 100]

\* Task.mark_failed
mark_failed(task, error_message) ==
    [task EXCEPT !.status = "failed", !.completed_at = TRUE,
                 !.error_message = error_message]

\* Task.increment_retry
increment_retry(task) ==
    LET n == task.retry_count + 1 IN
    [task EXCEPT !.retry_count = n,
                 !.status = IF n <= task.max_retries THEN "retry" ELSE "failed"]

\* Task.can_retry
can_retry(task) ==
    task.status = "failed" /\ task.retry_count < task.max_retries

UpdateProgress(progress) ==
    /\ obj' = update_progress(obj, progress)
    /\ UNCHANGED pipeline

MarkStarted ==
    /\ obj' = mark_started(obj)
    /\ UNCHANGED pipeline

MarkCompleted ==
    /\ obj' = mark_completed(obj)
    /\ UNCHANGED pipeline

MarkFailed ==
    /\ obj' = mark_failed(obj, "error")
    /\ UNCHANGED pipeline

IncrementRetry ==
    /\ obj.retry_count < MaxRetryCalls
    /\ obj' = increment_retry(obj)
    /\ UNCHANGED pipeline

TaskNext ==
    \/ \E progress \in ProgressInputs : UpdateProgress(progress)
    \/ MarkStarted
    \/ MarkCompleted
    \/ MarkFailed
    \/ IncrementRetry

TaskSpec == Init /\ [][TaskNext]_vars

\* ------------------------------------------------ calls of generate_summary
\* the objects generate_summary is given: FileAnalysis objects as analyze_file
\* builds them, and objects that carry a quality_score
SummaryObjects ==
    { AnalyzeFile(1, RawIssuesOf(kind)) : kind \in {"critical", "warning"} }
    \cup { [quality_score |-> q, issues |-> iss] :
              q \in {60, 80, 83, 90},
              iss \in {<<>>, <<[severity |-> "critical"]>>} }

\* lists of up to MaxSummaryFiles such objects
SummaryLists ==
    { [k \in 1..n |-> IF k = 1 THEN a ELSE b] :
          n \in 0..MaxSummaryFiles, a \in SummaryObjects, b \in SummaryObjects }

SummaryInit ==
    /\ Idle
    /\ call \in { [NoCall EXCEPT !.file_analyses = fas,
                                  !.total_issues = Len(AllIssues(fas))] :
                    fas \in SummaryLists }

\* generate_summary(pr_data, file_analyses, total_issues) returns
GenerateSummaryReturns ==
    /\ ~call.returned
    /\ call' = [call EXCEPT !.returned = TRUE,
                            !.result = GenerateSummary(call.file_analyses,
                                                       call.total_issues)]
    /\ UNCHANGED <<obj, db, api, pr, queue, meta, lastp, wk, counters>>

SummaryNext ==
    GenerateSummaryReturns

SummarySpec == SummaryInit /\ [][SummaryNext]_vars

\* ------------------------------------------------ calls of the score functions
\* raw issues as the analyses return them, with and without a severity
ScoreIssues ==
    { [type |-> "bug", severity |-> sev] : sev \in {"critical", "high", "medium", "low"} }
    \cup { [type |-> "warning"] }

ScoreIssueLists == UNION { [1..n -> ScoreIssues] : n \in 0..MaxScoreIssues }

\* quality results with the metrics, and the mock result, which has none
QualityResults ==
    { [complexity_score |-> c, duplication_score |-> d, maintainability_score |-> m] :
          c \in {5, 15, 16, 20}, d \in {0, 5, 10, 60}, m \in {10, 30, 80, 100} }
    \cup { mock_quality_analysis }

ScoreInit ==
    /\ Idle
    /\ call \in { [quality_results |-> qr, issues |-> iss,
                   maintainability_score |-> Get(qr, "maintainability_score", 75),
                   returned |-> FALSE, fn |-> "none", result |-> 0] :
                    qr \in QualityResults, iss \in ScoreIssueLists }

\* _calculate_quality_score(quality_results, issues, maintainability_score) returns
QualityScoreReturns ==
    /\ ~call.returned
    /\ call' = [call EXCEPT !.returned = TRUE,
                            !.fn = "_calculate_quality_score",
                            !.result = calculate_quality_score(call.quality_results,
                                           call.issues, call.maintainability_score)]
    /\ UNCHANGED <<obj, db, api, pr, queue, meta, lastp, wk, counters>>

\* _calculate_security_score(security_issues) returns
SecurityScoreReturns ==
    /\ ~call.returned
    /\ call' = [call EXCEPT !.returned = TRUE,
                            !.fn = "_calculate_security_score",
                            !.result = calculate_security_score(call.issues)]
    /\ UNCHANGED <<obj, db, api, pr, queue, meta, lastp, wk, counters>>

ScoreNext ==
    \/ QualityScoreReturns
    \/ SecurityScoreReturns

ScoreSpec == ScoreInit /\ [][ScoreNext]_vars

\* ------------------------------------------------ calls of analyze_file
\* the type and severity strings an analysis can send: the enum's own values,
\* the strings of the two default mappings, and a string of neither
TypeStrings == IssueType \cup {"unknown", "error", "warning", "info", "quality", "typo"}
SeverityStrings == IssueSeverity \cup {"error", "warning", "blocker"}

\* raw issues, also without a type or without a severity
MappedIssues ==
    { [type |-> ty, severity |-> sev] : ty \in TypeStrings, sev \in SeverityStrings }
    \cup { [type |-> ty] : ty \in TypeStrings }
    \cup { [severity |-> sev] : sev \in SeverityStrings }

MappedIssueLists == UNION { [1..n -> MappedIssues] : n \in 0..MaxMappedIssues }

AnalyzeFileInit ==
    /\ Idle
    /\ call \in { [issues |-> raw, returned |-> FALSE, result |-> [issues |-> <<>>]] :
                    raw \in MappedIssueLists }

\* analyze_file returns the FileAnalysis built from the analysis results
AnalyzeFileReturns ==
    /\ ~call.returned
    /\ call' = [call EXCEPT !.returned = TRUE, !.result = AnalyzeFile(1, call.issues)]
    /\ UNCHANGED <<obj, db, api, pr, queue, meta, lastp, wk, counters>>

AnalyzeFileNext ==
    AnalyzeFileReturns

AnalyzeFileSpec == AnalyzeFileInit /\ [][AnalyzeFileNext]_vars

\* --------------------------------- calls of analyze_file over model answers
\* _perform_comprehensive_analysis: the analysis results built from what the
\* three analyses returned
perform_comprehensive_analysis(quality_results, security_issues, suggestions) ==
    LET all_issues == AllIssuesOf(quality_results, security_issues)
        maintainability_score == Get(quality_results, "maintainability_score", 75)
    IN  [language |-> Get(quality_results, "language", "unknown"),
         complexity_score |-> Get(quality_results, "complexity_score", 5),
         quality_score |->
             calculate_quality_score(quality_results, all_issues, maintainability_score),
         security_score |-> calculate_security_score(security_issues),
         maintainability_score |-> maintainability_score,
         issues |-> all_issues,
         suggestions |-> suggestions]

\* one condition of the language-model client for each of the three analyses
LlmInit ==
    /\ Idle
    /\ call \in { [quality |-> q, security |-> s, suggestions |-> g, returned |-> FALSE,
                    quality_results |-> [issues |-> <<>>], security_issues |-> <<>>,
                    suggestions_returned |-> <<>>, result |-> [issues |-> <<>>]] :
                    q \in LlmConditions, s \in LlmConditions, g \in LlmConditions }

\* analyze_file runs the three analyses and returns the FileAnalysis built
\* from their results
AnalyzeFileOverLlmReturns ==
    /\ ~call.returned
    /\ LET quality_results == analyze_code_quality(call.quality)
           security_issues == analyze_security(call.security)
           suggestions == generate_suggestions(call.suggestions)
           analysis_results ==
               perform_comprehensive_analysis(quality_results, security_issues, suggestions)
       IN  call' = [call EXCEPT !.returned = TRUE,
                                !.quality_results = quality_results,
                                !.security_issues = security_issues,
                                !.suggestions_returned = suggestions,
                                !.result = AnalyzeFile(1, analysis_results.issues)]
    /\ UNCHANGED <<obj, db, api, pr, queue, meta, lastp, wk, counters>>

LlmNext ==
    AnalyzeFileOverLlmReturns

LlmSpec == LlmInit /\ [][LlmNext]_vars

\* ------------------------------------------------ the embeddings service
\* A text is a sequence of lines and a line a sequence of words; a float is
\* kept as a reduced fraction.
Vocabulary == {"def", "x"}
Lines == UNION { [1..n -> Vocabulary] : n \in 0..MaxLineWords }
Texts == UNION { [1..n -> Lines] : n \in 0..MaxLines }

RECURSIVE Gcd(_, _)
Gcd(a, b) == IF b = 0 THEN a ELSE Gcd(b, a % b)

\* the float n / d
Ratio(n, d) == [num |-> n \div Gcd(n, d), den |-> d \div Gcd(n, d)]
Zero == Ratio(0, 1)
One == Ratio(1, 1)

\* np.zeros(dim); the vector the model gives for a text
Zeros(dim) == [dim |-> dim, zero |-> TRUE]
Embedding(dim) == [dim |-> dim, zero |-> FALSE]

\* get_embedding_dimension
get_embedding_dimension(model) == EmbeddingDim

\* encode_code; encodes tells whether the model's encode returns
encode_code(model, encodes, code_content) ==
    IF model = "None" THEN Zeros(EmbeddingDim)
    ELSE IF encodes THEN Embedding(get_embedding_dimension(model))
    ELSE Zeros(get_embedding_dimension(model))

\* set(code.lower().split())
WordsOf(code) == UNION { { code[l][w] : w \in 1..Len(code[l]) } : l \in 1..Len(code) }

\* _simple_similarity: the Jaccard similarity of the two word sets
simple_similarity(code1, code2) ==
    LET words1 == WordsOf(code1)
        words2 == WordsOf(code2)
        intersection == Cardinality(words1 \cap words2)
        union == Cardinality(words1 \cup words2)
    IN  IF words1 = {} /\ words2 = {} THEN One
        ELSE IF union > 0 THEN Ratio(intersection, union) ELSE Zero

\* calculate_similarity with use_embeddings left at True; cosine is the cosine
\* of the two embeddings, which the model decides
calculate_similarity(model, cosine, code1, code2) ==
    IF model = "None" THEN simple_similarity(code1, code2)
    ELSE cosine

\* _extract_code_blocks: a line whose text starts with one of the keywords
\* followed by a space starts a new block; empty lines are dropped
BlockKeywords == {"def", "class", "function", "const", "let", "var"}

StartsBlock(line) == Len(line) >= 2 /\ line[1] \in BlockKeywords

RECURSIVE ExtractBlocks(_, _, _)
ExtractBlocks(lines, current_block, blocks) ==
    IF lines = << >>
    THEN IF current_block # << >> THEN Append(blocks, current_block) ELSE blocks
    ELSE LET line == Head(lines)
             closed == StartsBlock(line) /\ current_block # << >>
             kept == IF closed THEN << >> ELSE current_block
         IN  ExtractBlocks(Tail(lines),
                           IF line # << >> THEN Append(kept, line) ELSE kept,
                           IF closed THEN Append(blocks, current_block) ELSE blocks)

extract_code_blocks(file_content) == ExtractBlocks(file_content, << >>, << >>)

\* detect_code_duplicates: the number of pairs i < j whose similarity reaches
\* the threshold; every pair has the similarity cosine
detect_code_duplicates(model, cosine, code_pieces, threshold) ==
    IF model = "None" \/ Len(code_pieces) < 2 THEN 0
    ELSE IF cosine.num * threshold.den >= threshold.num * cosine.den
         THEN (Len(code_pieces) * (Len(code_pieces) - 1)) \div 2
         ELSE 0

\* analyze_code_similarity_metrics with no function extractor
analyze_code_similarity_metrics(model, cosine, file_content) ==
    LET code_blocks == extract_code_blocks(file_content)
        duplicates == detect_code_duplicates(model, cosine, code_blocks, Ratio(7, 10))
        pairs == (Len(code_blocks) * (Len(code_blocks) - 1)) \div 2
    IN  IF Len(code_blocks) < 2
        THEN [total_blocks |-> Len(code_blocks),
              duplicates_found |-> 0,
              max_similarity |-> Zero,
              avg_similarity |-> Zero,
              duplication_score |-> Zero]
        ELSE [total_blocks |-> Len(code_blocks),
              duplicates_found |-> duplicates,
              max_similarity |-> IF duplicates > 0 THEN cosine ELSE Zero,
              avg_similarity |-> IF duplicates > 0 THEN cosine ELSE Zero,
              duplication_score |->
                  IF duplicates >= Max(1, pairs) THEN One
                  ELSE Ratio(duplicates, Max(1, pairs)),
              duplicate_pairs |-> Min(5, duplicates)]

\* the service with the model loaded or not; with a model, whether its encode
\* returns and the cosine of the embeddings it gives
EmbeddingsInit ==
    /\ Idle
    /\ \E model \in {"None", "loaded"}, fn \in {"encode_code", "calculate_similarity",
                                                "analyze_code_similarity_metrics"} :
       \E encodes \in (IF model = "None" \/ fn # "encode_code" THEN {TRUE} ELSE BOOLEAN),
          cosine \in (IF model = "None" \/ fn = "encode_code" THEN {Zero} ELSE {Zero, One}),
          code1 \in Texts,
          code2 \in (IF fn = "calculate_similarity" THEN Texts ELSE {<< >>}) :
           call = [fn |-> fn, model |-> model, encodes |-> encodes, cosine |-> cosine,
                   code1 |-> code1, code2 |-> code2, returned |-> FALSE, result |-> Zero]

EncodeCodeReturns ==
    /\ ~call.returned
    /\ call.fn = "encode_code"
    /\ call' = [call EXCEPT !.returned = TRUE,
                            !.result = encode_code(call.model, call.encodes, call.code1)]
    /\ UNCHANGED <<obj, db, api, pr, queue, meta, lastp, wk, counters>>

CalculateSimilarityReturns ==
    /\ ~call.returned
    /\ call.fn = "calculate_similarity"
    /\ call' = [call EXCEPT !.returned = TRUE,
                            !.result = calculate_similarity(call.model, call.cosine,
                                                            call.code1, call.code2)]
    /\ UNCHANGED <<obj, db, api, pr, queue, meta, lastp, wk, counters>>

SimilarityMetricsReturns ==
    /\ ~call.returned
    /\ call.fn = "analyze_code_similarity_metrics"
    /\ call' = [call EXCEPT !.returned = TRUE,
                            !.result = analyze_code_similarity_metrics(call.model, call.cosine,
                                                                       call.code1)]
    /\ UNCHANGED <<obj, db, api, pr, queue, meta, lastp, wk, counters>>

EmbeddingsNext ==
    \/ EncodeCodeReturns
    \/ CalculateSimilarityReturns
    \/ SimilarityMetricsReturns

EmbeddingsSpec == EmbeddingsInit /\ [][EmbeddingsNext]_vars

\* ------------------------------------------------ calls of get_pr_files
\* what the HTTP client gives for a request: a response with a status code,
\* a 403 also with or without the words "rate limit" in its text, or an
\* exception of the connection
Responses ==
    { [status |-> st, rate_limit_text |-> FALSE, connects |-> TRUE] :
        st \in {200, 401, 403, 404, 500} }
    \cup { [status |-> 403, rate_limit_text |-> TRUE, connects |-> TRUE] }
    \cup { [status |-> 0, rate_limit_text |-> FALSE, connects |-> FALSE] }

FailedResponses == { r \in Responses : r.status # 200 }

\* GitHubAPIError(message, status_code)
GitHubAPIError(message, status_code) ==
    [class |-> "GitHubAPIError",
     message |-> message,
     error_code |-> CASE status_code = 401 -> "GITHUB_UNAUTHORIZED"
                      [] status_code = 403 -> "GITHUB_RATE_LIMITED"
                      [] status_code = 404 -> "GITHUB_REPO_NOT_FOUND"
                      [] OTHER             -> "GITHUB_API_ERROR",
     status_code |-> IF 400 <= status_code /\ status_code < 600 THEN status_code ELSE 500]

\* the exception that leaves the try block of _make_request, if one does
RequestBodyRaises(response) ==
    IF ~response.connects THEN [class |-> "httpx.ConnectError", http_error |-> TRUE]
    ELSE IF response.status = 403 /\ response.rate_limit_text
         THEN GitHubAPIError("GitHub API rate limit exceeded", 500)
    ELSE IF response.status = 404
         THEN GitHubAPIError("Resource not found", 500)
    ELSE IF response.status >= 400
         THEN [class |-> "httpx.HTTPStatusError", http_error |-> TRUE]
    ELSE [class |-> "none"]

\* _make_request: the error it raises, of class "none" when it returns the data
make_request(response) ==
    LET e == RequestBodyRaises(response)
    IN  IF e.class = "none" THEN [class |-> "none"]
        ELSE IF "http_error" \in DOMAIN e
             THEN GitHubAPIError("HTTP error calling GitHub API", 500)
        ELSE GitHubAPIError("Unexpected error calling GitHub API", 500)

\* the files of page number page of a pull request with n changed files, by
\* the numbers of the first and the last of them
FilesOfPage(n, page, per_page) ==
    [first |-> per_page * (page - 1) + 1, last |-> Min(n, per_page * page)]

\* len(files_data)
PageLen(files_data) ==
    IF files_data.last < files_data.first THEN 0
    ELSE files_data.last - files_data.first + 1

\* get_pr_files: one pass of its loop as it would be if the limit were tested
\* before the page number is increased
get_pr_files_page_early_limit(c, files_data) ==
    LET asked == [c EXCEPT !.requested = Append(@, [page |-> c.page, per_page |-> PerPage])]
    IN  IF PageLen(files_data) = 0 THEN [asked EXCEPT !.pc = "returned"]
        ELSE LET kept == [asked EXCEPT !.all_files = Append(@, files_data)]
             IN  IF PageLen(files_data) < PerPage THEN [kept EXCEPT !.pc = "returned"]
                 ELSE IF c.page > MaxPages
                      THEN [kept EXCEPT !.page = c.page + 1, !.warned = TRUE,
                                        !.pc = "returned"]
                      ELSE [kept EXCEPT !.page = c.page + 1]

\* get_pr_files: one pass of its loop over the page the request returned
get_pr_files_page(c, files_data) ==
    LET asked == [c EXCEPT !.requested = Append(@, [page |-> c.page, per_page |-> PerPage])]
    IN  IF PageLen(files_data) = 0 THEN [asked EXCEPT !.pc = "returned"]
        ELSE LET kept == [asked EXCEPT !.all_files = Append(@, files_data)]
             IN  IF PageLen(files_data) < PerPage THEN [kept EXCEPT !.pc = "returned"]
                 ELSE IF c.page + 1 > MaxPages
                      THEN [kept EXCEPT !.page = c.page + 1, !.warned = TRUE,
                                        !.pc = "returned"]
                      ELSE [kept EXCEPT !.page = c.page + 1]

\* a call of get_pr_files for a pull request with n changed files
PrFilesInit ==
    /\ Idle
    /\ call \in { [n |-> n, page |-> 1, requested |-> << >>, all_files |-> << >>,
                    warned |-> FALSE, pc |-> "loop", response |-> [status |-> 200],
                    error |-> [class |-> "none"]] : n \in 0..MaxPrFiles }

\* the request of the next page returns it
PageRequestReturns ==
    /\ call.pc = "loop"
    /\ \E response \in Responses \ FailedResponses :
           /\ make_request(response).class = "none"
           /\ call' = get_pr_files_page(call, FilesOfPage(call.n, call.page, PerPage))
    /\ UNCHANGED <<obj, db, api, pr, queue, meta, lastp, wk, counters>>

\* the request of the next page fails and its error leaves get_pr_files
PageRequestRaises ==
    /\ call.pc = "loop"
    /\ \E response \in FailedResponses :
           /\ make_request(response).class # "none"
           /\ call' = [call EXCEPT
                          !.requested = Append(@, [page |-> call.page, per_page |-> PerPage]),
                          !.pc = "raised",
                          !.response = response,
                          !.error = make_request(response)]
    /\ UNCHANGED <<obj, db, api, pr, queue, meta, lastp, wk, counters>>

PrFilesNext ==
    \/ PageRequestReturns
    \/ PageRequestRaises

PrFilesSpec == PrFilesInit /\ [][PrFilesNext]_vars

\* ------------------------------------------------------------ status reader
\* get_task_status: the persisted status of the Task, and the progress of the
\* result backend's info when the Task has a queue ticket and the info is a
\* dict with that key
get_task_status(t) ==
    [status |-> tasks[t].status,
     progress |-> IF tasks[t].celery_task_id THEN meta[t].progress ELSE Null,
     error_message |-> tasks[t].error_message]

\* =================================================================== claims
\* the PRAnalysis rows (ids) that belong to task t
AnalysesOf(t) ==
    {p \in 1..Len(pr_analyses) : pr_analyses[p].task_id = t}

\* the persisted result of task t: its status, its PRAnalysis rows and their
\* FileAnalysis and Issue rows
ResultOf(t) ==
    [status |-> tasks[t].status,
     analyses |-> {<<p, pr_analyses[p]>> : p \in AnalysesOf(t)},
     files |-> {f \in file_analyses : f.pr_analysis_id \in AnalysesOf(t)},
     issues |-> {x \in issues : x.pr_analysis_id \in AnalysesOf(t)}]

\* task t is being run, and only by runs that began after it had completed
RerunOnly(t) ==
    /\ \E w \in Workers : wk[w].pc # "idle" /\ wk[w].task_id = t
    /\ \A w \in Workers : (wk[w].pc # "idle" /\ wk[w].task_id = t) => wk[w].rerun

\* the status changes the Task state machine allows
AllowedTransitions ==
    { <<"pending", "processing">>, <<"processing", "completed">>,
      <<"processing", "failed">>, <<"failed", "retry">>, <<"retry", "processing">> }
    \cup { <<s, "cancelled">> : s \in TaskStatus }

\* C1: every Task whose status is completed, failed or cancelled has a
\* completed_at.
C1_TerminalHasCompletedAt ==
    \A t \in DOMAIN tasks :
        tasks[t].status \in Terminal => tasks[t].completed_at

\* C2: a Task that has a completed_at is in a terminal status; a task that
\* failed and is run again as processing carries no completed_at.
C2_CompletedAtOnlyTerminal ==
    \A t \in DOMAIN tasks :
        tasks[t].completed_at => tasks[t].status \in Terminal

\* C3: the progress of a Task is 100 exactly when its status is completed, for
\* the rows the worker writes and for a Task changed through its methods.
C3_ProgressHundredIffCompleted ==
    /\ \A t \in DOMAIN tasks :
          (tasks[t].progress = 100) <=> (tasks[t].status = "completed")
    /\ (obj.progress = 100) <=> (obj.status = "completed")

\* C4: every change of a Task's status is one of the allowed transitions
\* pending->processing, processing->completed, processing->failed,
\* failed->retry, retry->processing, any->cancelled.
C4_OnlyAllowedTransitions ==
    [][\A t \in DOMAIN tasks :
          tasks'[t].status # tasks[t].status
              => <<tasks[t].status, tasks'[t].status>> \in AllowedTransitions]_vars

\* C5: the progress values written for a task id never decrease, across
\* retries and re-deliveries too.
C5_ProgressMonotonic ==
    [][\A t \in TaskIds : lastp'[t] >= lastp[t]]_vars

\* C6: once the persisted status of a Task is cancelled, no step moves it to
\* completed.
C6_CancelledNeverCompleted ==
    [][\A t \in DOMAIN tasks :
          tasks[t].status = "cancelled" => tasks'[t].status # "completed"]_vars

\* C7: there is at most one PRAnalysis row for every task id.
C7_OnePRAnalysisPerTask ==
    \A t \in TaskIds : Cardinality(AnalysesOf(t)) <= 1

\* C8: a run of the worker for a task that had already completed leaves the
\* persisted result (Task status, PRAnalysis rows, FileAnalysis and Issue
\* rows) as it was.
C8_RerunLeavesResult ==
    [][\A t \in DOMAIN tasks : RerunOnly(t) => ResultOf(t)' = ResultOf(t)]_vars

\* C9: for every PRAnalysis, total_issues_found is the sum of the five
\* per-severity counters.
C9_IssuesFoundIsSeveritySum ==
    \A p \in 1..Len(pr_analyses) :
        pr_analyses[p].total_issues_found =
            pr_analyses[p].critical_issues + pr_analyses[p].high_issues
            + pr_analyses[p].medium_issues + pr_analyses[p].low_issues
            + pr_analyses[p].info_issues

\* C10: for every completed PRAnalysis, total_files_analyzed is the number of
\* FileAnalysis rows that reference it.
C10_FilesAnalyzedIsRowCount ==
    \A p \in 1..Len(pr_analyses) :
        pr_analyses[p].status = "completed" =>
            pr_analyses[p].total_files_analyzed =
                Cardinality({f \in file_analyses : f.pr_analysis_id = p})

\* C11: for every PRAnalysis the three scores quality_score,
\* maintainability_score and complexity_score are all set when its status is
\* completed and all null when its status is in_progress or failed.
C11_ScoresAllOrNone ==
    \A p \in 1..Len(pr_analyses) :
        LET row == pr_analyses[p]
            scores == {row.quality_score, row.maintainability_score,
                       row.complexity_score} IN
        /\ row.status = "completed" => Null \notin scores
        /\ row.status \in {"in_progress", "failed"} => scores = {Null}

\* C12: every persisted FileAnalysis has critical_issues_count <= issues_count,
\* and its issues_count is the number of Issue rows attached to it.
C12_FileIssueCounts ==
    \A f \in file_analyses :
        /\ f.critical_issues_count <= f.issues_count
        /\ f.issues_count = Cardinality({x \in issues : x.file_analysis_id = f.id})

\* C12 witness: a run has persisted a FileAnalysis whose only issue is critical
\* and one whose only issue is not, each with its Issue row.
C12_Witness ==
    \E f, g \in file_analyses :
        /\ f.pr_analysis_id = g.pr_analysis_id
        /\ f.critical_issues_count = 1 /\ f.issues_count = 1
        /\ g.critical_issues_count = 0 /\ g.issues_count = 1
        /\ \E x \in issues : x.file_analysis_id = g.id /\ x.severity = "medium"

\* the files of task t's pull request whose analysis does not raise
OtherFiles(t) ==
    {k \in 1..Len(pr[t].files) : pr[t].files[k] # "raises"}

\* the number of issues the analyses of a file list return, raising files aside
RECURSIVE IssuesOfAnalyzed(_)
IssuesOfAnalyzed(files) ==
    IF files = <<>> THEN 0
    ELSE (IF Head(files) = "raises" THEN 0 ELSE Len(RawIssuesOf(Head(files))))
         + IssuesOfAnalyzed(Tail(files))

\* the worker w is at a file of its pull request whose analysis raises
AtRaisingFile(w) ==
    /\ wk[w].pc = "file"
    /\ wk[w].i < wk[w].n
    /\ pr[wk[w].task_id].files[wk[w].i + 1] = "raises"

\* C13: when the analysis of a file raises, the worker skips the file and goes
\* on (no row is written, the Task is not failed); and when a run over a pull
\* request with a raising file commits its results, the Task is completed,
\* exactly the other files have FileAnalysis rows under the run's PRAnalysis,
\* and total_issues_found is the number of issues of those other files.
C13_FailedFileSkipped ==
    [][\A w \in Workers :
          LET t == wk[w].task_id
              p == wk[w].pr_id IN
          /\ (AtRaisingFile(w) /\ wk'[w] # wk[w]) =>
                /\ wk'[w] = [wk[w] EXCEPT !.i = @ + 1]
                /\ UNCHANGED db
          /\ (wk[w].pc = "save" /\ wk'[w].pc = "success"
                 /\ OtherFiles(t) # DOMAIN pr[t].files) =>
                /\ tasks'[t].status = "completed"
                /\ pr_analyses'[p].status = "completed"
                /\ {f.file_path : f \in {g \in file_analyses' : g.pr_analysis_id = p}}
                      = OtherFiles(t)
                /\ pr_analyses'[p].total_issues_found = IssuesOfAnalyzed(pr[t].files)
                /\ Cardinality({x \in issues' : x.pr_analysis_id = p})
                      = IssuesOfAnalyzed(pr[t].files)]_vars

\* C13 witness: a run over a pull request whose first file raises and whose
\* second file has an issue has committed: the Task is completed and the
\* PRAnalysis has the one FileAnalysis row of the second file.
C13_Witness ==
    \E w \in Workers :
        LET t == wk[w].task_id
            p == wk[w].pr_id IN
        /\ wk[w].pc = "success"
        /\ Len(pr[t].files) = 2
        /\ pr[t].files[1] = "raises" /\ pr[t].files[2] # "raises"
        /\ tasks[t].status = "completed"
        /\ pr_analyses[p].status = "completed"
        /\ pr_analyses[p].total_issues_found = 1
        /\ {f.file_path : f \in {g \in file_analyses : g.pr_analysis_id = p}} = {2}

\* C14: when generate_summary raises, the run is not failed: it goes on to
\* saving with the synthetic summary (overall_quality "unknown",
\* recommendations ["Analysis summary generation failed"], critical_issues 0),
\* and when the run commits, the PRAnalysis and the Task are completed and the
\* PRAnalysis carries the synthetic summary and recommendations.
C14_SummaryFailureDegraded ==
    [][\A w \in Workers :
          LET t == wk[w].task_id
              p == wk[w].pr_id IN
          /\ (nsummaryfault' # nsummaryfault /\ wk'[w] # wk[w]) =>
                /\ wk'[w].pc = "saving"
                /\ wk'[w].summary =
                      [overall_quality |-> "unknown",
                       recommendations |-> <<"Analysis summary generation failed">>,
                       critical_issues |-> 0]
                /\ UNCHANGED db
          /\ (wk[w].pc = "save" /\ wk'[w].pc = "success"
                 /\ wk[w].summary.overall_quality = "unknown") =>
                /\ tasks'[t].status = "completed"
                /\ tasks'[t].error_message = tasks[t].error_message
                /\ pr_analyses'[p].status = "completed"
                /\ pr_analyses'[p].summary = "unknown"
                /\ pr_analyses'[p].recommendations =
                      <<"Analysis summary generation failed">>]_vars

\* C14 witness: a run whose summary generation raised has committed its
\* results: Task and PRAnalysis are completed with the synthetic summary.
C14_Witness ==
    \E w \in Workers :
        /\ wk[w].pc = "success"
        /\ nsummaryfault > 0
        /\ wk[w].summary.overall_quality = "unknown"
        /\ tasks[wk[w].task_id].status = "completed"
        /\ pr_analyses[wk[w].pr_id].status = "completed"
        /\ pr_analyses[wk[w].pr_id].summary = "unknown"

\* no run of the analysis task is under way or waiting in the broker
NoRunLeft ==
    /\ \A w \in Workers : wk[w].pc = "idle"
    /\ \A m \in queue : m.name # RegisteredTaskName

\* C15: for a task whose pull request cannot be fetched (every attempt
\* fails), no PRAnalysis row exists at any time, the Task is failed with the
\* fetch error as its error_message from the first failed attempt on, and
\* when no run is left the retries are exhausted (Celery state FAILURE).
C15_FetchFailureFatal ==
    \A t \in DOMAIN pr :
        ~pr[t].reachable =>
            /\ AnalysesOf(t) = {}
            /\ tasks[t].status = "failed"
            /\ tasks[t].error_message = "Failed to fetch PR data"
            /\ tasks[t].completed_at
            /\ NoRunLeft => meta[t].state = "FAILURE"

\* C15 witness: the pull request was not reachable, all runs have ended with
\* the retries exhausted, and the Task is failed with the fetch error.
C15_Witness ==
    \E t \in DOMAIN pr :
        /\ ~pr[t].reachable
        /\ NoRunLeft
        /\ meta[t].state = "FAILURE"
        /\ tasks[t].status = "failed"
        /\ tasks[t].error_message = "Failed to fetch PR data"
        /\ AnalysesOf(t) = {}

\* C16: every automatic retry (the task is sent again with retries + 1) adds
\* one to the Task's retry_count and leaves its status retry; and the status
\* of a failed Task goes to processing only through retry.
C16_RetryCountsAndMarks ==
    [][\A t \in DOMAIN tasks :
          /\ (\E m \in queue' \ queue : m.task_id = t /\ m.retries > 0) =>
                /\ tasks'[t].retry_count = tasks[t].retry_count + 1
                /\ tasks'[t].status = "retry"
          /\ (tasks[t].status # "processing" /\ tasks'[t].status = "processing"
                 /\ \E w \in Workers : wk[w].task_id = t /\ wk[w].retries > 0) =>
                tasks[t].status = "retry"]_vars

\* C17: the runs of one delivery are numbered by the retries made, 0 to
\* max_retries, so a task whose every run raises is run at most
\* 1 + max_retries = 4 times; when the last of them raises, no further run is
\* scheduled (Celery state FAILURE) and the Task row is left as the run's
\* handler wrote it, failed with the error of that run when the pull request
\* is one every run fails on; and once no run is left the row stays so.
C17_RetriesBounded ==
    [][/\ \A m \in queue' : m.retries <= CeleryMaxRetries
       /\ \A w \in Workers :
             LET t == wk[w].task_id IN
             /\ wk'[w].retries <= CeleryMaxRetries
             /\ (wk[w].pc = "retry" /\ wk'[w].pc = "idle"
                    /\ wk[w].retries = CeleryMaxRetries) =>
                   /\ queue' = queue
                   /\ meta'[t].state = "FAILURE"
                   /\ tasks' = tasks
                   /\ ~pr[t].reachable =>
                         /\ tasks'[t].status = "failed"
                         /\ tasks'[t].error_message = wk[w].error
       /\ \A t \in DOMAIN pr : NoRunLeft => tasks'[t] = tasks[t]]_vars

\* C17 witness: the fourth run of a delivery (retries = max_retries) has
\* raised and its handler has marked the Task failed with the run's error.
C17_Witness ==
    \E w \in Workers :
        /\ wk[w].pc = "retry"
        /\ wk[w].retries = CeleryMaxRetries
        /\ tasks[wk[w].task_id].status = "failed"
        /\ tasks[wk[w].task_id].error_message = wk[w].error

\* C18: in every state reached by calls of increment_retry and the other
\* Task methods, retry_count <= max_retries; and a call of increment_retry on
\* a Task whose budget is used up leaves the status failed.
C18_RetryCountWithinBudget ==
    [][/\ obj'.retry_count <= obj'.max_retries
       /\ (obj'.retry_count # obj.retry_count
             /\ obj.retry_count >= obj.max_retries) => obj'.status = "failed"]_vars

\* the worker w is at a file during whose analysis the language model is not
\* available
AtDegradedFile(w) ==
    /\ wk[w].pc = "file"
    /\ wk[w].i < wk[w].n
    /\ pr[wk[w].task_id].files[wk[w].i + 1] = "degraded"

\* C19: when the language model is not available (no API key, or the endpoint
\* call raises), analyze_code_quality, analyze_security and
\* generate_suggestions each return their canned response and do not raise;
\* the worker's step on such a file adds the FileAnalysis built from the
\* canned responses and fails nothing; and when a run over a pull request with
\* such a file commits, Task and PRAnalysis are completed and the file has its
\* FileAnalysis row.
C19_LlmUnavailableDegrades ==
    [][\A w \in Workers :
          LET t == wk[w].task_id
              p == wk[w].pr_id
              degraded == {k \in DOMAIN pr[t].files : pr[t].files[k] = "degraded"} IN
          /\ (AtDegradedFile(w) /\ wk'[w] # wk[w]) =>
                /\ \A c \in LlmUnavailable :
                      /\ analyze_code_quality(c) = mock_quality_analysis
                      /\ analyze_security(c) = mock_security_analysis
                      /\ generate_suggestions(c) = mock_suggestions
                      /\ wk'[w].fas =
                            Append(wk[w].fas,
                                   AnalyzeFile(wk[w].i + 1,
                                               AllIssuesOf(analyze_code_quality(c),
                                                           analyze_security(c))))
                /\ wk'[w].pc = "file"
                /\ wk'[w].i = wk[w].i + 1
                /\ wk'[w].total_issues = wk[w].total_issues + 2
                /\ UNCHANGED db
          /\ (wk[w].pc = "save" /\ wk'[w].pc = "success" /\ degraded # {}) =>
                /\ tasks'[t].status = "completed"
                /\ pr_analyses'[p].status = "completed"
                /\ \A k \in degraded :
                      \E f \in file_analyses' :
                          /\ f.pr_analysis_id = p
                          /\ f.file_path = k
                          /\ f.issues_count = 2
                          /\ f.critical_issues_count = 0]_vars

\* C19 witness: a run over a pull request whose only file was analysed while
\* the language model was not available has committed: the Task is completed
\* and the file has a FileAnalysis row with the two canned issues.
C19_Witness ==
    \E w \in Workers :
        LET t == wk[w].task_id
            p == wk[w].pr_id IN
        /\ wk[w].pc = "success"
        /\ pr[t].files = <<"degraded">>
        /\ ndbfault = 0 /\ nsummaryfault = 0
        /\ tasks[t].status = "completed"
        /\ pr_analyses[p].status = "completed"
        /\ pr_analyses[p].total_issues_found = 2
        /\ \E f \in file_analyses :
              /\ f.pr_analysis_id = p /\ f.issues_count = 2
              /\ Cardinality({x \in issues : x.file_analysis_id = f.id
                                              /\ x.severity = "low"}) = 2

\* C20: the message the submission sends for an accepted task reaches the
\* analysis worker: it leaves the broker only by a worker process taking it
\* and beginning a run of the analysis task for that Task (from which the Task
\* goes on to a terminal status).
C20_SubmittedIsPickedUp ==
    [][\A m \in queue :
          (m.name = SentTaskName /\ m \notin queue') =>
              \E w \in Workers :
                  /\ wk[w].pc = "idle"
                  /\ wk'[w].pc = "init"
                  /\ wk'[w].task_id = m.task_id]_vars

\* C21: whenever a Task is in a terminal status, every PRAnalysis row of the
\* task is in a terminal status too (completed or failed), none in_progress.
C21_AnalysisTerminalWithTask ==
    \A t \in DOMAIN tasks :
        tasks[t].status \in Terminal =>
            \A p \in AnalysesOf(t) : pr_analyses[p].status \in {"completed", "failed"}

C23_CriticalPropagates ==
    [][\A w \in Workers :
          LET t == wk[w].task_id
              p == wk[w].pr_id IN
          (wk[w].pc = "save" /\ wk'[w].pc = "success"
             /\ pr[t].files = <<"critical">>
             /\ wk[w].summary.overall_quality # "unknown") =>
              /\ \E f \in file_analyses' :
                    /\ f.pr_analysis_id = p
                    /\ f.critical_issues_count = 1
              /\ pr_analyses'[p].critical_issues = 1
              /\ wk[w].summary.overall_quality = "needs_work"
              /\ wk[w].summary.critical_issues = 1
              /\ pr_analyses'[p].summary = "needs_work"
              /\ \E k \in DOMAIN pr_analyses'[p].recommendations :
                    pr_analyses'[p].recommendations[k]
                        = "Address 1 critical security issues immediately"]_vars

\* C23 witness: such a run has committed and the PRAnalysis carries the
\* critical count and the needs_work summary.
C23_Witness ==
    \E w \in Workers :
        /\ wk[w].pc = "success"
        /\ pr[wk[w].task_id].files = <<"critical">>
        /\ wk[w].summary.overall_quality = "needs_work"
        /\ pr_analyses[wk[w].pr_id].critical_issues = 1
        /\ pr_analyses[wk[w].pr_id].recommendations
              = <<"Address 1 critical security issues immediately">>

\* a run of worker w over a pull request with no changed files commits the
\* summary generate_summary gave
ZeroFilesCommit(w) ==
    /\ wk[w].pc = "save"
    /\ wk'[w].pc = "success"
    /\ pr[wk[w].task_id].files = << >>
    /\ wk[w].summary.overall_quality # "unknown"

\* all counters of a PRAnalysis row are zero
CountersZero(row) ==
    /\ row.total_files_analyzed = 0
    /\ row.total_issues_found = 0
    /\ row.critical_issues = 0 /\ row.high_issues = 0 /\ row.medium_issues = 0
    /\ row.low_issues = 0 /\ row.info_issues = 0

\* C24 as claimed: a pull request with zero changed files completes with all
\* PRAnalysis counters zero and overall_quality "fair".
C24_ZeroFilesFair ==
    [][\A w \in Workers :
          ZeroFilesCommit(w) =>
              /\ tasks'[wk[w].task_id].status = "completed"
              /\ pr_analyses'[wk[w].pr_id].status = "completed"
              /\ CountersZero(pr_analyses'[wk[w].pr_id])
              /\ pr_analyses'[wk[w].pr_id].summary = "fair"]_vars

\* C24 as amended: a pull request with zero changed files completes with all
\* PRAnalysis counters zero and overall_quality "good" (the score defaults to
\* 75, which is good by the thresholds), with quality_score 75 and the
\* fallback recommendation.
C24_ZeroFilesGood ==
    [][\A w \in Workers :
          ZeroFilesCommit(w) =>
              /\ tasks'[wk[w].task_id].status = "completed"
              /\ pr_analyses'[wk[w].pr_id].status = "completed"
              /\ CountersZero(pr_analyses'[wk[w].pr_id])
              /\ pr_analyses'[wk[w].pr_id].summary = "good"
              /\ pr_analyses'[wk[w].pr_id].quality_score = 75
              /\ pr_analyses'[wk[w].pr_id].recommendations
                    = <<"Code looks good! Consider adding tests if not present">>
              /\ {f \in file_analyses' : f.pr_analysis_id = wk[w].pr_id} = {}]_vars

\* C24 witness: a run over a pull request with no files has committed.
C24_Witness ==
    \E w \in Workers :
        /\ wk[w].pc = "success"
        /\ pr[wk[w].task_id].files = << >>
        /\ wk[w].summary.overall_quality = "good"
        /\ tasks[wk[w].task_id].status = "completed"
        /\ pr_analyses[wk[w].pr_id].summary = "good"
        /\ pr_analyses[wk[w].pr_id].total_files_analyzed = 0

\* a URL of one of the two stated forms, taken as sent or with the white space
\* around it removed
OfAcceptedForm(url, trimmed) ==
    LET s == IF trimmed THEN Strip(url) ELSE url
    IN HttpsGroups(s) # {} \/ SshGroups(s) # {}

\* what the submission does with each request, given which requests are good
ValidationDecides(t, trimmed) ==
    \A req \in Requests :
        IF OfAcceptedForm(req.repo_url, trimmed) /\ req.pr_number > 0
        THEN ENABLED SubmitCreate(t, req) /\ ~ENABLED SubmitReject(t, req)
        ELSE ENABLED SubmitReject(t, req) /\ ~ENABLED SubmitCreate(t, req)

\* the writes of the submission's first step: none on a rejection, one pending
\* Task row at progress 0 on an acceptance, and nothing enqueued either way
ValidationWrites(t) ==
    /\ api'[t] = "rejected" =>
          /\ t \notin DOMAIN tasks'
          /\ UNCHANGED <<db, queue>>
    /\ api'[t] = "created" =>
          /\ t \notin DOMAIN tasks
          /\ DOMAIN tasks' = DOMAIN tasks \cup {t}
          /\ \A u \in DOMAIN tasks : tasks'[u] = tasks[u]
          /\ tasks'[t].status = "pending"
          /\ tasks'[t].progress = 0
          /\ UNCHANGED queue

C26_NoSubmissionWriteAfterEnqueue ==
    [][\A t \in DOMAIN tasks : api[t] = "sent" /\ api'[t] # api[t] =>
          tasks'[t] = tasks[t]]_vars

\* the positions of a run at which its next step reports progress
ReportingPcs == {"init", "fetching", "analyzing", "file", "saving", "success"}

\* the number of progress reports a run at position r has made
ReportIndex(r) ==
    CASE r.pc = "init" -> 0
      [] r.pc = "fetching" -> 1
      [] r.pc = "analyzing" -> 2
      [] r.pc = "file" -> 3 + r.i
      [] r.pc = "saving" -> 4 + r.n
      [] r.pc = "success" -> 5 + r.n

\* the progress values of a successful run over n files, in order
ProgressSeq(n) ==
    <<0, 10, 30>> \o [k \in 1..n |-> 30 + (50 * (k - 1)) \div n] \o <<85, 95, 100>>

\* C27: a run reports progress 0, 10, 30, then 30 + floor(50 * i / n) for file i
\* of n, then 85, 95 and 100, in this order, and reports no other value.
C27_ProgressOrder ==
    [][\A w \in Workers : wk[w].pc # "idle" /\ wk'[w] # wk[w] =>
          IF wk[w].pc \in ReportingPcs
          THEN lastp'[wk[w].task_id] = ProgressSeq(wk[w].n)[ReportIndex(wk[w]) + 1]
          ELSE lastp'[wk[w].task_id] = lastp[wk[w].task_id]]_vars

\* C28: when a run is about to call the code host for the PR metadata and the
\* file list, it has already marked the Task processing with started_at and
\* inserted a PRAnalysis row with status in_progress.
C28_OpenedBeforeFetch ==
    \A w \in Workers : wk[w].pc = "fetch" =>
        /\ tasks[wk[w].task_id].status = "processing"
        /\ tasks[wk[w].task_id].started_at
        /\ \E p \in AnalysesOf(wk[w].task_id) : pr_analyses[p].status = "in_progress"

\* the integer nearest to sum / len, a tie going to the even one
RoundedMean(sum, len) ==
    LET q == sum \div len
        r == sum % len
    IN IF 2 * r > len \/ (2 * r = len /\ q % 2 = 1) THEN q + 1 ELSE q

\* C29: the overall_score of a summary is the rounded mean of the quality
\* scores of the files that have one, and 75 when no file has one.
C29_ScoreIsRoundedMean ==
    call.returned =>
        LET qs == QualityScores(call.file_analyses)
        IN call.result.overall_score =
              IF qs = <<>> THEN 75 ELSE RoundedMean(SumSeq(qs), Len(qs))

\* the critical issues among the arguments of the call
CallCriticalIssues ==
    UNION { { <<k, j>> : j \in { i \in 1..Len(call.file_analyses[k].issues) :
                                  call.file_analyses[k].issues[i].severity = "critical" } }
            : k \in 1..Len(call.file_analyses) }

\* the average score of the call is below 70 (75 stands in when no file has one)
CallAverageBelow70 ==
    LET qs == QualityScores(call.file_analyses)
    IN qs # <<>> /\ SumSeq(qs) < 70 * Len(qs)

Recommends(text) ==
    \E k \in 1..Len(call.result.recommendations) : call.result.recommendations[k] = text

\* C30: the recommendations of a summary hold the critical-issues template iff
\* there is a critical issue, the refactoring advice iff the average score is
\* below 70, the split-the-PR advice iff more than 20 files were analyzed, the
\* fallback iff none of the three holds, and are never empty.
C30_RecommendationsByCondition ==
    call.returned =>
        LET crit == Cardinality(CallCriticalIssues)
            large == Len(call.file_analyses) > 20
        IN /\ Recommends(CriticalTemplate(crit)) <=> crit >= 1
           /\ Recommends("Consider refactoring to improve code quality")
                 <=> CallAverageBelow70
           /\ Recommends("Large PR - consider breaking into smaller changes") <=> large
           /\ Recommends("Code looks good! Consider adding tests if not present")
                 <=> ~(crit >= 1 \/ CallAverageBelow70 \/ large)
           /\ call.result.recommendations # <<>>

\* a summary of more than 20 low-scored files with critical issues has returned
C30_Witness ==
    /\ call.returned
    /\ Len(call.file_analyses) > 20
    /\ Cardinality(CallCriticalIssues) >= 1
    /\ CallAverageBelow70
    /\ Len(call.result.recommendations) = 3

\* the number of issues of the call whose severity is one of severities
CallIssuesOf(severities) ==
    Cardinality({k \in 1..Len(call.issues) :
                    "severity" \in DOMAIN call.issues[k]
                    /\ call.issues[k].severity \in severities})

\* the penalties of the call for issues and complexity
CallQualityPenalty ==
    LET complexity == IF "complexity_score" \in DOMAIN call.quality_results
                      THEN call.quality_results.complexity_score ELSE 5
    IN 20 * CallIssuesOf({"critical", "high"}) + 10 * CallIssuesOf({"high"})
       + 5 * CallIssuesOf({"medium"})
       + (IF complexity > 15 THEN 2 * (complexity - 15) ELSE 0)

\* the duplication of the call, in hundredths
CallDuplication ==
    IF "duplication_score" \in DOMAIN call.quality_results
    THEN call.quality_results.duplication_score ELSE 0

Clamp(x) == IF x < 0 THEN 0 ELSE IF x > 100 THEN 100 ELSE x

\* C31: the file quality score is an integer in [0,100], the clamp of
\* maintainability - 20 * (critical or high) - 10 * high - 5 * medium
\* - 2 * (complexity - 15) when complexity > 15 - round(30 * duplication).
C31_QualityScoreFormula ==
    call.returned /\ call.fn = "_calculate_quality_score" =>
        /\ call.result \in 0..100
        /\ call.result = Clamp(call.maintainability_score - CallQualityPenalty
                               - RoundedMean(30 * CallDuplication, 100))

\* the quality score of the call's arguments with one more critical issue
CallScoreWithOneMoreCritical ==
    calculate_quality_score(call.quality_results,
                            Append(call.issues, [type |-> "security", severity |-> "critical"]),
                            call.maintainability_score)

\* C32 as stated: adding one critical issue gives a strictly smaller quality
\* score, whatever the maintainability, issues, complexity and duplication.
C32_CriticalStrictlyLowers ==
    call.returned /\ call.fn = "_calculate_quality_score" =>
        CallScoreWithOneMoreCritical < call.result

\* C32 amended: adding one critical issue never gives a larger quality score,
\* and gives a strictly smaller one whenever the score without it is above 0
\* (a score of 0 stays 0).
C32_CriticalLowersAboveZero ==
    call.returned /\ call.fn = "_calculate_quality_score" =>
        /\ CallScoreWithOneMoreCritical <= call.result
        /\ call.result > 0 => CallScoreWithOneMoreCritical < call.result
        /\ call.result = 0 => CallScoreWithOneMoreCritical = 0

\* a quality score above 0 was returned for a list that already has issues
C32_Witness ==
    /\ call.returned
    /\ call.fn = "_calculate_quality_score"
    /\ call.result > 0
    /\ Len(call.issues) >= 1
    /\ CallScoreWithOneMoreCritical = call.result - 20

\* C33: the security score is 100 for an empty issue list and otherwise the
\* clamp to [0,100] of 100 - 40 * (critical or high) - 25 * high - 10 * medium.
C33_SecurityScoreFormula ==
    call.returned /\ call.fn = "_calculate_security_score" =>
        call.result = IF call.issues = <<>> THEN 100
                      ELSE Clamp(100 - 40 * CallIssuesOf({"critical", "high"})
                                 - 25 * CallIssuesOf({"high"})
                                 - 10 * CallIssuesOf({"medium"}))

\* a security score was returned for a list whose penalties exceed 100
C33_Witness ==
    /\ call.returned
    /\ call.fn = "_calculate_security_score"
    /\ CallIssuesOf({"critical", "high"}) = 3
    /\ call.result = 0

\* the Issue type the mapping names for an incoming type string
NamedType(ty) ==
    CASE ty \in IssueType -> ty
      [] ty \in {"unknown", "error"} -> "bug"
      [] ty = "warning" -> "best_practice"
      [] ty = "info" -> "style"
      [] ty = "quality" -> "maintainability"
      [] OTHER -> "bug"

\* the severity the mapping names for an incoming severity string
NamedSeverity(sev) ==
    CASE sev = "error" -> "high"
      [] sev = "warning" -> "medium"
      [] sev = "info" -> "low"
      [] sev \in IssueSeverity -> sev
      [] OTHER -> "low"

\* C34: every Issue analyze_file builds has a type and a severity of the enums,
\* obtained by the mapping: types unknown, error -> bug, warning ->
\* best_practice, info -> style, quality -> maintainability, other -> bug;
\* severities error -> high, warning -> medium, info -> low, unknown or
\* missing -> low.
C34_TaxonomyMapping ==
    call.returned =>
        /\ Len(call.result.issues) = Len(call.issues)
        /\ \A k \in 1..Len(call.issues) :
              /\ call.result.issues[k].issue_type \in IssueType
              /\ call.result.issues[k].severity \in IssueSeverity
              /\ call.result.issues[k].issue_type =
                    NamedType(IF "type" \in DOMAIN call.issues[k]
                              THEN call.issues[k].type ELSE "missing")
              /\ call.result.issues[k].severity =
                    NamedSeverity(IF "severity" \in DOMAIN call.issues[k]
                                  THEN call.issues[k].severity ELSE "missing")

\* C35: a language-model answer that is not valid JSON never makes the file
\* analysis fail: whichever of the three analyses received such text, its
\* result is the well-formed structure holding the raw text as its single
\* element (the quality result with no issues and the text as its only
\* suggestion, the security result with one issue, the suggestions with one
\* suggestion), and analyze_file returns a completed FileAnalysis whose
\* issues are those of the analysis results.
C35_TextIsWrapped ==
    call.returned =>
        /\ call.quality.response = "text" =>
               /\ call.quality_results.issues = << >>
               /\ call.quality_results.suggestions = << "content" >>
        /\ call.security.response = "text" =>
               /\ Len(call.security_issues) = 1
               /\ call.security_issues[1].title = "Security Analysis"
               /\ call.security_issues[1].type = "info"
               /\ call.security_issues[1].severity = "medium"
        /\ call.suggestions.response = "text" =>
               /\ Len(call.suggestions_returned) = 1
               /\ call.suggestions_returned[1].title = "Code Improvement"
        /\ (\/ call.quality.response = "text"
            \/ call.security.response = "text"
            \/ call.suggestions.response = "text") =>
               /\ call.result.analysis_status = "completed"
               /\ call.result.issues_count
                      = Len(AllIssuesOf(call.quality_results, call.security_issues))
               /\ Len(call.result.issues) = call.result.issues_count

\* the three analyses all received text that is not JSON and analyze_file
\* returned a FileAnalysis with the one wrapped security issue
C35_Witness ==
    /\ call.returned
    /\ call.quality.response = "text"
    /\ call.security.response = "text"
    /\ call.suggestions.response = "text"
    /\ call.result.analysis_status = "completed"
    /\ call.result.issues_count = 1
    /\ call.result.issues[1].severity = "medium"

\* C36: when the embeddings model failed to load, encode returns a zero
\* vector, the similarity of any two texts is 0.0, and the similarity metrics
\* of any file (duplicates found, maximal and average similarity, duplication
\* score) are all zero.
C36_UnloadedModelGivesZeros ==
    (call.returned /\ call.model = "None") =>
        /\ call.fn = "encode_code" => call.result = Zeros(EmbeddingDim)
        /\ call.fn = "calculate_similarity" => call.result = Zero
        /\ call.fn = "analyze_code_similarity_metrics" =>
               /\ call.result.duplicates_found = 0
               /\ call.result.max_similarity = Zero
               /\ call.result.avg_similarity = Zero
               /\ call.result.duplication_score = Zero

\* number of files of page k of the called pull request, as the claim counts
\* them (pages of 100)
CallPageLen(k) == PageLen(FilesOfPage(call.n, k, 100))

\* number of files in the pages get_pr_files has kept
RECURSIVE FilesKept(_)
FilesKept(pages) ==
    IF pages = << >> THEN 0 ELSE PageLen(Head(pages)) + FilesKept(Tail(pages))

\* C37: get_pr_files requests pages of size 100 in increasing page order
\* starting at 1, stops at the first empty page or page shorter than 100,
\* never requests more than 50 pages, returns the concatenation of the
\* fetched pages in order (at most 5000 files), and logs the truncation
\* warning exactly when the 50-page limit is what stopped it, which includes
\* a pull request with exactly 5000 files.
C37_PagingOfPrFiles ==
    /\ \A k \in 1..Len(call.requested) :
           call.requested[k] = [page |-> k, per_page |-> 100]
    /\ Len(call.requested) <= 50
    /\ \A k \in 1..(Len(call.requested) - 1) : CallPageLen(k) = 100
    /\ call.pc = "returned" =>
           LET last == Len(call.requested)
               fetched == IF CallPageLen(last) = 0 THEN last - 1 ELSE last
           IN  /\ last >= 1
               /\ CallPageLen(last) < 100 \/ last = 50
               /\ call.all_files = [k \in 1..fetched |-> FilesOfPage(call.n, k, 100)]
               /\ FilesKept(call.all_files) = Min(call.n, 5000)
               /\ call.warned <=> (last = 50 /\ CallPageLen(50) = 100)
               /\ call.n = 5000 => call.warned

\* get_pr_files returned the 50 pages of a pull request with exactly 5000
\* files and logged the warning
C37_Witness ==
    /\ call.pc = "returned"
    /\ call.n = 5000
    /\ Len(call.requested) = 50
    /\ FilesKept(call.all_files) = 5000
    /\ call.warned

\* the kind of an error of the code host, read from its class and error code
KindOf(error) ==
    CASE error.class = "GitHubPRNotFoundError"
           \/ error.error_code \in {"GITHUB_PR_NOT_FOUND", "GITHUB_REPO_NOT_FOUND"}
             -> "NotFound"
      [] error.error_code = "GITHUB_RATE_LIMITED" -> "RateLimited"
      [] error.error_code = "GITHUB_UNAUTHORIZED" -> "Unauthorized"
      [] OTHER -> "Upstream"

\* C38: a failed request to the code host yields an error whose kind tells
\* which case occurred: NotFound for a 404, RateLimited for a rate-limit
\* response, Unauthorized for a 401, and the generic upstream error otherwise.
C38_ErrorKindTellsCase ==
    call.pc = "raised" =>
        KindOf(call.error) =
            CASE call.response.status = 404 -> "NotFound"
              [] call.response.status = 403 /\ call.response.rate_limit_text -> "RateLimited"
              [] call.response.status = 401 -> "Unauthorized"
              [] OTHER -> "Upstream"

\* the PRAnalysis rows that are in_progress, and the completed ones of a task
InProgressAnalyses == {p \in 1..Len(pr_analyses) : pr_analyses[p].status = "in_progress"}
CompletedAnalysesOf(t) == {p \in AnalysesOf(t) : pr_analyses[p].status = "completed"}

\* a PRAnalysis that is in_progress has no FileAnalysis and no Issue rows
C39_NoRowsWhileInProgress ==
    \A p \in InProgressAnalyses :
        /\ {f \in file_analyses : f.pr_analysis_id = p} = {}
        /\ {x \in issues : x.pr_analysis_id = p} = {}

\* C39: the FileAnalysis and Issue rows of a run become visible only in the
\* transaction that also marks the PRAnalysis and the Task completed: a
\* PRAnalysis that is in_progress has no FileAnalysis and no Issue rows, and a
\* Task is completed exactly when the PRAnalysis of a run that completed it
\* is completed.
C39_RowsAppearWithCompletion ==
    /\ C39_NoRowsWhileInProgress
    /\ \A t \in DOMAIN tasks :
           tasks[t].status = "completed" <=> CompletedAnalysesOf(t) # {}

\* the positions of a run inside the try block of the async workflow, and
\* those after the workflow has returned or raised
InsideWorkflow == {"fetch", "analyzing", "open", "file", "saving", "save", "success"}
AfterWorkflow == {"return", "except", "retry"}

====
